---- MODULE Spec2Model ----
(***************************************************************************)
(* A model of the fixed-point engine cos-num (Num<F, TF>, a scaled i64),   *)
(* of the calculator with the single-scale Num<F> it computes with, and    *)
(* of the firmware's main loop that hands it the keys of the joystick.     *)
(*                                                                         *)
(* TLC's integers are 32 bits wide, so an i64 (and the exact mathematical  *)
(* value a claim compares it with) is an arbitrary-precision integer: a    *)
(* record [neg, mag] whose magnitude is a little-endian sequence of limbs  *)
(* in base 1024 without leading zero limbs (so equal integers are equal    *)
(* values).  The i64 operations of the source are built on them: Wrap is   *)
(* two's-complement wraparound, Sat is saturation, and an unchecked        *)
(* `+ - *` of the source panics or wraps as the build's overflow-checks    *)
(* setting says.                                                           *)
(***************************************************************************)
EXTENDS Integers, Sequences, FiniteSets, TLC

VARIABLES
    F,        \* const generic F: the fractional digits of the instantiation
    TF,       \* const generic TF: the working precision of the series
    NEW_F,    \* const generic NEW_F: the fractional digits a conversion goes to
    checks,   \* the build's overflow-checks setting (debug: TRUE, release: FALSE)
    a,        \* the first operand (a raw value), or the integer argument
    b,        \* the second operand (a raw value)
    op,       \* the operation applied, "new" before any
    out,      \* what the operation returned: a raw value or a panic
    calculator, \* the Calculator: its fields a, op, b, frac, frac_digits
    keys,     \* the keys handed to handle_input so far
    loop,     \* the loop being run: its name, its locals, its iterations so far
    input,    \* the firmware's InputState: pos, old_dir, already_pressed
    deliveries \* the calls of handle_input since the button was last sampled released

vars == <<F, TF, NEW_F, checks, a, b, op, out, calculator, keys, loop, input, deliveries>>

\* InputState::DEFAULT_POS
DEFAULT_POS == <<2, 3>>

\* InputState::new
InputState_new == [pos |-> DEFAULT_POS, old_dir |-> "Center", already_pressed |-> FALSE]

\* no loop is being run
Idle == [name |-> "none", s |-> [n |-> 0], steps |-> 0, caller |-> [n |-> 0]]

----------------------------------------------------------------------------
\* Natural numbers: little-endian limb sequences.  Sums, differences and
\* products are formed limb by limb and then normalised by rounds of carries,
\* which keeps TLC's evaluation shallow.  An intermediate result that is used
\* more than once is bound as the element x of a singleton, Val({e : x \in {v}}),
\* so that it is computed once.

Base == 1024

\* the element of a singleton
Val(S) == CHOOSE v \in S : TRUE

Limb(s, i) == IF i >= 1 /\ i <= Len(s) THEN s[i] ELSE 0

\* s without its leading (last) zero limbs
NTrim(s) ==
    IF s = <<>> \/ s[Len(s)] # 0 THEN s
    ELSE LET nz == {i \in 1..Len(s) : s[i] # 0}
         IN  IF nz = {} THEN <<>>
             ELSE SubSeq(s, 1, CHOOSE i \in nz : \A j \in nz : j <= i)

\* the limb sequence of the natural number SUM s[i] * Base^(i-1), whose s[i]
\* are any integers: every limb passes its carry (or borrow) up, until none is left
RECURSIVE NNorm(_)
NNorm(s) ==
    LET t == s \o <<>>
    IN  IF \A i \in 1..Len(t) : t[i] >= 0 /\ t[i] < Base THEN NTrim(t)
        ELSE NNorm([i \in 1..(Len(t) + 1) |->
                       (Limb(t, i) % Base) + (Limb(t, i - 1) \div Base)])

\* -1, 0 or 1 as x is less than, equal to or greater than y
NCmp(x, y) ==
    IF Len(x) < Len(y) THEN -1
    ELSE IF Len(x) > Len(y) THEN 1
    ELSE LET df == {i \in 1..Len(x) : x[i] # y[i]}
         IN  IF df = {} THEN 0
             ELSE LET t == CHOOSE i \in df : \A j \in df : j <= i
                  IN  IF x[t] < y[t] THEN -1 ELSE 1

NAdd(x, y) ==
    NNorm([i \in 1..(IF Len(x) > Len(y) THEN Len(x) ELSE Len(y)) |-> Limb(x, i) + Limb(y, i)])

\* x - y for x >= y
NSub(x, y) == NNorm([i \in 1..Len(x) |-> x[i] - Limb(y, i)])

\* x times the limb d
NMulSmall(x, d) == NNorm([i \in 1..Len(x) |-> x[i] * d])

\* SUM of x[i] * y[k + 1 - i] for i in lo..hi
RECURSIVE NColumn(_, _, _, _, _)
NColumn(x, y, k, lo, hi) ==
    IF lo > hi THEN 0 ELSE x[lo] * y[k + 1 - lo] + NColumn(x, y, k, lo + 1, hi)

NMul(x, y) ==
    IF x = <<>> \/ y = <<>> THEN <<>>
    ELSE NNorm([k \in 1..(Len(x) + Len(y) - 1) |->
                   NColumn(x, y, k, IF k > Len(y) THEN k + 1 - Len(y) ELSE 1,
                                    IF k > Len(x) THEN Len(x) ELSE k)])

\* the largest q <= hi with q * d <= r
RECURSIVE NPick(_, _, _)
NPick(r, d, q) ==
    IF q = 0 \/ NCmp(NMulSmall(d, q), r) <= 0 THEN q ELSE NPick(r, d, q - 1)

\* the quotient limb r \div d, for r < d * Base
NDigit(r, d) ==
    IF NCmp(r, d) < 0 THEN 0
    ELSE IF Len(d) = 1 THEN (Limb(r, 2) * Base + Limb(r, 1)) \div d[1]
    ELSE LET L  == Len(d)
             rt == (Limb(r, L + 1) * Base + Limb(r, L)) * Base + Limb(r, L - 1)
             dt == d[L] * Base + d[L - 1]
             hi == (rt + 1) \div dt
         IN  NPick(r, d, IF hi > Base - 1 THEN Base - 1 ELSE hi)

\* long division from the top limb x[i] down, r the remainder so far and qs
\* the quotient limbs so far (the lowest first): <<quotient limbs, remainder>>
RECURSIVE NDivAt(_, _, _, _, _)
NDivAt(x, d, i, r, qs) ==
    IF i = 0 THEN <<qs, r>>
    ELSE Val({Val({NDivAt(x, d, i - 1,
                          IF q = 0 THEN r1 ELSE NSub(r1, NMulSmall(d, q)),
                          <<q>> \o qs) : q \in {NDigit(r1, d)}}) :
              r1 \in {NTrim(<<x[i]>> \o r)}})

\* <<x \div d, x % d>> for d # 0
NDivMod(x, d) ==
    IF NCmp(x, d) < 0 THEN <<(<<>>), x>>
    ELSE Val({<<NTrim(qr[1]), qr[2]>> : qr \in {NDivAt(x, d, Len(x), <<>>, <<>>)}})

----------------------------------------------------------------------------
\* Integers: sign and magnitude; zero is never negative.

Z(neg, mag) == [neg |-> neg /\ mag # <<>>, mag |-> mag]

\* a natural number below 2^31
NOfInt(n) == NTrim(<<n % Base, (n \div Base) % Base, (n \div (Base * Base)) % Base,
                     n \div (Base * Base * Base)>>)

\* a TLC integer as an integer of the model
ZInt(n) == IF n < 0 THEN Z(TRUE, NOfInt(-n)) ELSE Z(FALSE, NOfInt(n))

Zero == ZInt(0)

ZNeg(x) == Z(~x.neg, x.mag)

ZAbs(x) == Z(FALSE, x.mag)

ZAdd(x, y) ==
    IF x.neg = y.neg THEN Z(x.neg, NAdd(x.mag, y.mag))
    ELSE IF NCmp(x.mag, y.mag) >= 0 THEN Z(x.neg, NSub(x.mag, y.mag))
    ELSE Z(y.neg, NSub(y.mag, x.mag))

ZSub(x, y) == ZAdd(x, ZNeg(y))

ZMul(x, y) == Z(x.neg # y.neg, NMul(x.mag, y.mag))

\* the quotient truncated toward zero, as i64's `/`
ZQuot(x, y) == Z(x.neg # y.neg, NDivMod(x.mag, y.mag)[1])

\* the remainder with the sign of the dividend, as i64's `%`
ZRem(x, y) == Z(x.neg, NDivMod(x.mag, y.mag)[2])

ZLt(x, y) ==
    IF x.neg # y.neg THEN x.neg
    ELSE IF x.neg THEN NCmp(x.mag, y.mag) > 0
    ELSE NCmp(x.mag, y.mag) < 0

ZLe(x, y) == x = y \/ ZLt(x, y)

\* the decimal digits ds[from..to] (at most nine) as a TLC integer
RECURSIVE DecInt(_, _, _)
DecInt(ds, from, to) ==
    IF to < from THEN 0 ELSE DecInt(ds, from, to - 1) * 10 + ds[to]

\* a decimal literal of the source (at most 27 digits), digit by digit
ZDec(ds) ==
    LET n  == Len(ds)
        e9 == ZInt(1000000000)
        lo == ZInt(DecInt(ds, IF n > 9 THEN n - 8 ELSE 1, n))
        mi == ZInt(DecInt(ds, IF n > 18 THEN n - 17 ELSE 1, n - 9))
        hi == ZInt(DecInt(ds, 1, n - 18))
    IN  ZAdd(ZMul(ZAdd(ZMul(hi, e9), mi), e9), lo)

\* 10^n for n <= 18, as 10i64.pow(n)
Pow10(n) ==
    IF n <= 9 THEN ZInt(10 ^ n) ELSE ZMul(ZInt(1000000000), ZInt(10 ^ (n - 9)))

----------------------------------------------------------------------------
\* i64: the machine integers of the source.

\* 2^63 and 2^64 (seven limbs of ten bits)
Two63 == Z(FALSE, <<0, 0, 0, 0, 0, 0, 8>>)

Two64 == Z(FALSE, <<0, 0, 0, 0, 0, 0, 16>>)

I64Max == ZSub(Two63, ZInt(1))

I64Min == ZNeg(Two63)

Fits(z) == ZLe(I64Min, z) /\ ZLe(z, I64Max)

\* the low 64 bits of a magnitude
Low64(m) == NTrim([i \in 1..7 |-> IF i = 7 THEN Limb(m, 7) % 16 ELSE Limb(m, i)] \o <<>>)

\* two's-complement wraparound: the value congruent to z modulo 2^64 in i64
Wrap(z) ==
    IF Fits(z) THEN z
    ELSE Val({IF ZLt(I64Max, u) THEN ZSub(u, Two64) ELSE u :
              u \in {IF z.neg /\ Low64(z.mag) # <<>>
                     THEN ZSub(Two64, Z(FALSE, Low64(z.mag)))
                     ELSE Z(FALSE, Low64(z.mag))}})

\* saturation at the ends of i64
Sat(z) == IF ZLt(I64Max, z) THEN I64Max ELSE IF ZLt(z, I64Min) THEN I64Min ELSE z

\* a panic (assert!, panic!, or a checked arithmetic failure): no value
Panic(msg) == [panic |-> msg]

IsPanic(v) == "panic" \in DOMAIN v

\* a panic in an operand aborts the whole expression
Strict(x, y, v) == IF IsPanic(x) THEN x ELSE IF IsPanic(y) THEN y ELSE v

\* an unchecked `+`, `-`, `*` of the source whose exact result is z: with
\* overflow-checks it panics on overflow, without it wraps
Unchecked(z, msg) ==
    IF Fits(z) THEN z ELSE IF checks THEN Panic(msg) ELSE Wrap(z)

IAdd(x, y) == Strict(x, y, Unchecked(ZAdd(x, y), "attempt to add with overflow"))

ISub(x, y) == Strict(x, y, Unchecked(ZSub(x, y), "attempt to subtract with overflow"))

IMul(x, y) == Strict(x, y, Unchecked(ZMul(x, y), "attempt to multiply with overflow"))

\* i64 `/`: truncates; panics on a zero divisor and on MIN / -1 in every build
IDiv(x, y) ==
    Strict(x, y,
        IF y = Zero THEN Panic("attempt to divide by zero")
        ELSE IF x = I64Min /\ y = ZInt(-1) THEN Panic("attempt to divide with overflow")
        ELSE ZQuot(x, y))

\* i64 `%`
IRem(x, y) ==
    Strict(x, y,
        IF y = Zero THEN Panic("attempt to calculate the remainder with a divisor of zero")
        ELSE IF x = I64Min /\ y = ZInt(-1)
             THEN Panic("attempt to calculate the remainder with overflow")
        ELSE ZRem(x, y))

\* i64::abs: overflows at MIN
IAbs(x) == Strict(x, x, Unchecked(ZAbs(x), "attempt to negate with overflow"))

\* a faulty variant: an addition that saturates
saturating_add(x, y) == Strict(x, y, Sat(ZAdd(x, y)))

wrapping_add(x, y) == Strict(x, y, Wrap(ZAdd(x, y)))

wrapping_sub(x, y) == Strict(x, y, Wrap(ZSub(x, y)))

wrapping_mul(x, y) == Strict(x, y, Wrap(ZMul(x, y)))

wrapping_neg(x) == Strict(x, x, Wrap(ZNeg(x)))

saturating_mul(x, y) == Strict(x, y, Sat(ZMul(x, y)))

\* x < y on values, false when either panicked (the comparison is not reached)
Lt(x, y) == ~IsPanic(x) /\ ~IsPanic(y) /\ ZLt(x, y)

----------------------------------------------------------------------------
\* Num<F, TF>: each operation takes the raw values and the fractional digits f
\* of the instantiation it is compiled for.  A raw value is an i64; the result
\* of an operation is a raw value or a panic.

\* the largest F whose SCALE fits in i64 (a larger one does not compile)
MaxFracDigits == 18

SCALE(f) == Pow10(f)

ZERO == Zero

\* a faulty variant: a product that wraps
from_int_wrapping(n, f) == wrapping_mul(n, SCALE(f))

from_int(n, f) == saturating_mul(n, SCALE(f))

\* a faulty variant: one raw unit for the number one
ONE_raw(f) == ZInt(1)

ONE(f) == from_int(ZInt(1), f)

from_2_longs(int, frac, f) ==
    IF f = 0 THEN int
    ELSE Val({IAdd(saturating_mul(int, SCALE(f)),
                   IF ~frac.neg
                   THEN IDiv(IAdd(frac, IDiv(divisor, ZInt(2))), divisor)
                   ELSE IDiv(ISub(frac, IDiv(divisor, ZInt(2))), divisor)) :
              divisor \in {Pow10(19 - f)}})

PI(f) == from_2_longs(ZInt(3), ZDec(<<1, 4, 1, 5, 9, 2, 6, 5, 3, 5, 8, 9, 7, 9, 3, 2, 3, 8, 4>>), f)

TAU(f) == from_2_longs(ZInt(6), ZDec(<<2, 8, 3, 1, 8, 5, 3, 0, 7, 1, 7, 9, 5, 8, 6, 4, 7, 6, 9>>), f)

PHI(f) == from_2_longs(ZInt(1), ZDec(<<6, 1, 8, 0, 3, 3, 9, 8, 8, 7, 4, 9, 8, 9, 4, 8, 4, 8, 2>>), f)

EGAMMA(f) == from_2_longs(ZInt(0), ZDec(<<5, 7, 7, 2, 1, 5, 6, 6, 4, 9, 0, 1, 5, 3, 2, 8, 6, 0, 6>>), f)

SQRT_2(f) == from_2_longs(ZInt(1), ZDec(<<4, 1, 4, 2, 1, 3, 5, 6, 2, 3, 7, 3, 0, 9, 5, 0, 4, 8, 8>>), f)

E(f) == from_2_longs(ZInt(2), ZDec(<<7, 1, 8, 2, 8, 1, 8, 2, 8, 4, 5, 9, 0, 4, 5, 2, 3, 5, 3>>), f)

LN_2(f) == from_2_longs(ZInt(0), ZDec(<<6, 9, 3, 1, 4, 7, 1, 8, 0, 5, 5, 9, 9, 4, 5, 3, 0, 9, 4>>), f)

abs(x) == IAbs(x)

add(x, y) == wrapping_add(x, y)

sub(x, y) == wrapping_sub(x, y)

neg(x) == wrapping_neg(x)

mul(x, y, f) ==
    Val({Strict(r, r,
             IF ~r.neg
             THEN IDiv(IAdd(r, IDiv(SCALE(f), ZInt(2))), SCALE(f))
             ELSE IDiv(ISub(r, IDiv(SCALE(f), ZInt(2))), SCALE(f))) :
         r \in {wrapping_mul(x, y)}})

\* a faulty variant: the dividend is not scaled
div_unscaled(x, y, f) ==
    Strict(x, y,
        IF y = Zero THEN Panic("division by zero")
        ELSE IF ~x.neg
        THEN IDiv(IAdd(x, IDiv(y, ZInt(2))), y)
        ELSE IDiv(ISub(x, IDiv(y, ZInt(2))), y))

div(x, y, f) ==
    Strict(x, y,
        IF y = Zero THEN Panic("division by zero")
        ELSE Val({IF ~r.neg
                  THEN IDiv(IAdd(r, IDiv(y, ZInt(2))), y)
                  ELSE IDiv(ISub(r, IDiv(y, ZInt(2))), y) :
                  r \in {wrapping_mul(x, SCALE(f))}}))

rem(x, y) == IRem(x, y)

\* i64::midpoint: (x + y) / 2 computed without overflow, rounded toward zero
midpoint(x, y) == Strict(x, y, ZQuot(ZAdd(x, y), ZInt(2)))

\* a loop that has not left its condition after the iterations the model runs
Diverges == [panic |-> "loop still running"]

\* the Newton loop of sqrt, 2^k iterations of it: s is [n, x0, x1] or a panic,
\* and an iteration whose condition x1 < x0 fails leaves s as it is
RECURSIVE sqrt_loop(_, _)
sqrt_loop(k, s) ==
    IF IsPanic(s) \/ ~ZLt(s.x1, s.x0) THEN s
    ELSE IF k = 0
    THEN Val({Strict(x1, x1, [n |-> s.n, x0 |-> s.x1, x1 |-> x1]) :
              x1 \in {midpoint(s.x1, IDiv(s.n, s.x1))}})
    ELSE Val({sqrt_loop(k - 1, h) : h \in {sqrt_loop(k - 1, s)}})

\* the state of sqrt before its loop: x0 = n, x1 = midpoint(x0, n / x0)
sqrt_start(n) ==
    Val({Strict(n, x1, [n |-> n, x0 |-> n, x1 |-> x1]) :
         x1 \in {midpoint(n, IDiv(n, n))}})

\* the Newton loop runs at most 2^NewtonDoublings times in the model
NewtonDoublings == 6

\* a faulty variant: the root is not rounded
sqrt_floor(n, x0) == x0

\* the rounding that ends sqrt: x0 or x0 + 1, whichever is nearer the root of n
sqrt_round(n, x0) ==
    Val({Strict(lhs, rhs, IF ZLt(lhs, rhs) THEN x0 ELSE IAdd(x0, ZInt(1))) :
         lhs \in {IMul(ISub(n, IMul(x0, x0)), ZInt(2))},
         rhs \in {IAdd(IMul(ZInt(2), x0), ZInt(1))}})

sqrt(x, f) ==
    IF x.neg THEN Panic("sqrt of negative number")
    ELSE IF x = Zero THEN ZERO
    ELSE Val({Val({IF IsPanic(s) THEN s
                   ELSE IF ZLt(s.x1, s.x0) THEN Diverges
                   ELSE sqrt_round(n, s.x0) :
                   s \in {sqrt_loop(NewtonDoublings, sqrt_start(n))}}) :
              n \in {IMul(x, SCALE(f))}})

\* the literal table of factorial, 0! to 20!
FactTable(k) ==
    IF k <= 1 THEN ZInt(1)
    ELSE IF k = 2 THEN ZDec(<<2>>)
    ELSE IF k = 3 THEN ZDec(<<6>>)
    ELSE IF k = 4 THEN ZDec(<<2, 4>>)
    ELSE IF k = 5 THEN ZDec(<<1, 2, 0>>)
    ELSE IF k = 6 THEN ZDec(<<7, 2, 0>>)
    ELSE IF k = 7 THEN ZDec(<<5, 0, 4, 0>>)
    ELSE IF k = 8 THEN ZDec(<<4, 0, 3, 2, 0>>)
    ELSE IF k = 9 THEN ZDec(<<3, 6, 2, 8, 8, 0>>)
    ELSE IF k = 10 THEN ZDec(<<3, 6, 2, 8, 8, 0, 0>>)
    ELSE IF k = 11 THEN ZDec(<<3, 9, 9, 1, 6, 8, 0, 0>>)
    ELSE IF k = 12 THEN ZDec(<<4, 7, 9, 0, 0, 1, 6, 0, 0>>)
    ELSE IF k = 13 THEN ZDec(<<6, 2, 2, 7, 0, 2, 0, 8, 0, 0>>)
    ELSE IF k = 14 THEN ZDec(<<8, 7, 1, 7, 8, 2, 9, 1, 2, 0, 0>>)
    ELSE IF k = 15 THEN ZDec(<<1, 3, 0, 7, 6, 7, 4, 3, 6, 8, 0, 0, 0>>)
    ELSE IF k = 16 THEN ZDec(<<2, 0, 9, 2, 2, 7, 8, 9, 8, 8, 8, 0, 0, 0>>)
    ELSE IF k = 17 THEN ZDec(<<3, 5, 5, 6, 8, 7, 4, 2, 8, 0, 9, 6, 0, 0, 0>>)
    ELSE IF k = 18 THEN ZDec(<<6, 4, 0, 2, 3, 7, 3, 7, 0, 5, 7, 2, 8, 0, 0, 0>>)
    ELSE IF k = 19 THEN ZDec(<<1, 2, 1, 6, 4, 5, 1, 0, 0, 4, 0, 8, 8, 3, 2, 0, 0, 0>>)
    ELSE ZDec(<<2, 4, 3, 2, 9, 0, 2, 0, 0, 8, 1, 7, 6, 6, 4, 0, 0, 0, 0>>)

\* a raw value that is known to lie in 0..Base-1, as a TLC integer
Small(z) == IF z.mag = <<>> THEN 0 ELSE z.mag[1]

\* a faulty variant: the table is read one entry too far
factorial_through_21(x, f) ==
    IF x.neg THEN Panic("Factorial of negative number")
    ELSE IF IRem(x, SCALE(f)) # Zero THEN Panic("Factorial of non-integer")
    ELSE Val({IF ZLt(ZInt(21), k) THEN Panic("Factorial will big what i64::MAX (n > 20)")
              ELSE saturating_mul(FactTable(Small(k)), SCALE(f)) :
              k \in {IDiv(x, SCALE(f))}})

\* a faulty variant: the entry is not multiplied by the scale
factorial_unscaled(x, f) ==
    IF x.neg THEN Panic("Factorial of negative number")
    ELSE IF IRem(x, SCALE(f)) # Zero THEN Panic("Factorial of non-integer")
    ELSE Val({IF ZLt(ZInt(20), k) THEN Panic("Factorial will big what i64::MAX (n > 20)")
              ELSE FactTable(Small(k)) :
              k \in {IDiv(x, SCALE(f))}})

factorial(x, f) ==
    IF x.neg THEN Panic("Factorial of negative number")
    ELSE IF IRem(x, SCALE(f)) # Zero THEN Panic("Factorial of non-integer")
    ELSE Val({IF ZLt(ZInt(20), k) THEN Panic("Factorial will big what i64::MAX (n > 20)")
              ELSE saturating_mul(FactTable(Small(k)), SCALE(f)) :
              k \in {IDiv(x, SCALE(f))}})

max_iterations == 15

\* the term function ln hands to taylor_series: from the last dividend, the
\* index n and the closure's flag, [dividend, result] and the flag after the
\* call; x2 is the square the closure captures
ln_term(dividend, n, x2, neg_flag, tf) ==
    Val({Val({Strict(i, r, [dividend |-> i, result |-> r, neg_flag |-> ~neg_flag]) :
              r \in {div(i, from_int(ZInt(n), tf), tf)}}) :
         i \in {mul(dividend, x2, tf)}})

\* a faulty variant: the terms do not alternate in sign
sin_term_unsigned(dividend, n, x2, neg_flag, tf) ==
    Val({Val({Strict(i, r, [dividend |-> i, result |-> r, neg_flag |-> ~neg_flag]) :
              r \in {div(i, factorial(from_int(ZInt(n), tf), tf), tf)}}) :
         i \in {mul(dividend, x2, tf)}})

\* the term function of sin: the flag is toggled before it is read
sin_term(dividend, n, x2, neg_flag, tf) ==
    Val({Val({Strict(i, r, [dividend |-> i, result |-> r, neg_flag |-> ~neg_flag]) :
              r \in {div(IF ~neg_flag THEN neg(i) ELSE i,
                         factorial(from_int(ZInt(n), tf), tf), tf)}}) :
         i \in {mul(dividend, x2, tf)}})

\* the term function of the series named kind
next_term(kind, dividend, n, x2, neg_flag, tf) ==
    CASE kind = "ln" -> ln_term(dividend, n, x2, neg_flag, tf)
      [] kind = "sin" -> sin_term(dividend, n, x2, neg_flag, tf)

\* the loop of taylor_series, from the sum and dividend reached at index n
RECURSIVE taylor_loop(_, _, _, _, _, _, _, _)
taylor_loop(kind, sum, dividend, n, acc, x2, neg_flag, tf) ==
    IF IsPanic(sum) \/ ~(n < max_iterations) THEN sum
    ELSE Val({IF IsPanic(t) THEN t
              ELSE taylor_loop(kind, add(sum, t.result), t.dividend, n + acc, acc,
                               x2, t.neg_flag, tf) :
              t \in {next_term(kind, dividend, n, x2, neg_flag, tf)}})

taylor_series(first, acc, kind, x2, tf) ==
    taylor_loop(kind, first, first, 1 + acc, acc, x2, FALSE, tf)

normalize_angle(x, f) ==
    Val({Val({IF IsPanic(angle) THEN angle
              ELSE IF ZLt(pi, angle) THEN sub(angle, tau)
              ELSE IF ZLt(angle, neg(pi)) THEN add(angle, tau)
              ELSE angle :
              angle \in {IF IsPanic(a0) THEN a0
                         ELSE IF ZLt(tau, a0)
                         THEN Val({Val({Strict(whole_rotations, whole_rotations,
                                            sub(x, mul(tau, from_int(whole_rotations, f), f))) :
                                        whole_rotations \in
                                            {IF IsPanic(rotations) THEN rotations
                                             ELSE IF ~rotations.neg
                                             THEN IDiv(IAdd(rotations, IDiv(SCALE(f), ZInt(2))), SCALE(f))
                                             ELSE IDiv(ISub(rotations, IDiv(SCALE(f), ZInt(2))), SCALE(f))}}) :
                                   rotations \in {div(x, tau, f)}})
                         ELSE x}}) :
         a0 \in {abs(x)}, tau \in {TAU(f)}, pi \in {PI(f)}})

increase_frac(x, f, new_f) ==
    IF ~(new_f >= f) THEN Panic("NEW_F must be >= F when increasing precision")
    ELSE IF new_f = f THEN x
    ELSE saturating_mul(x, Pow10(new_f - f))

decrease_frac(x, f, new_f) ==
    IF IsPanic(x) THEN x
    ELSE IF ~(new_f <= f) THEN Panic("NEW_F must be <= F when decreasing precision")
    ELSE IF new_f = f THEN x
    ELSE Val({IF ~x.neg
              THEN IDiv(IAdd(x, IDiv(divisor, ZInt(2))), divisor)
              ELSE IDiv(ISub(x, IDiv(divisor, ZInt(2))), divisor) :
              divisor \in {Pow10(f - new_f)}})

\* the angle sin hands to its series: an angle beyond a quarter turn is
\* reflected, sin(x) = sin(PI - x)
sin_reflect(x, tf) ==
    IF IsPanic(x) THEN x
    ELSE IF ZLt(div(PI(tf), from_int(ZInt(2), tf), tf), x) THEN sub(PI(tf), x)
    ELSE IF ZLt(x, div(neg(PI(tf)), from_int(ZInt(2), tf), tf)) THEN sub(neg(PI(tf)), x)
    ELSE x

sin(x, f, tf) ==
    Val({Strict(x1, x1, decrease_frac(taylor_series(x1, 2, "sin", mul(x1, x1, tf), tf), tf, f)) :
         x1 \in {sin_reflect(normalize_angle(increase_frac(x, f, tf), tf), tf)}})

\* a faulty variant: the angle is not shifted by a quarter turn
cos_unshifted(x, f, tf) == sin(x, f, tf)

cos(x, f, tf) == sin(sub(div(PI(f), from_int(ZInt(2), f), f), x), f, tf)

\* a faulty variant: an extreme value stands in for the quotient by zero
tan_saturating(x, f, tf) ==
    Val({IF c = Zero THEN (IF ~s.neg THEN I64Max ELSE I64Min) ELSE div(s, c, f) :
         s \in {sin(x, f, tf)}, c \in {cos(x, f, tf)}})

\* self.sin() / self.cos()
tan(x, f, tf) == Val({div(s, c, f) : s \in {sin(x, f, tf)}, c \in {cos(x, f, tf)}})

\* self.cos() / self.sin()
ctg(x, f, tf) == Val({div(c, s, f) : c \in {cos(x, f, tf)}, s \in {sin(x, f, tf)}})

\* the two range-reduction loops of ln, 2^k iterations of each: s is
\* [value, n] or a panic, and an iteration whose condition fails leaves s
RECURSIVE ln_halve(_, _, _)
ln_halve(k, s, tf) ==
    IF IsPanic(s) \/ ~ZLt(from_int(ZInt(2), tf), s.value) THEN s
    ELSE IF k = 0
    THEN Val({Strict(v, v, [value |-> v, n |-> s.n + 1]) :
              v \in {div(s.value, from_int(ZInt(2), tf), tf)}})
    ELSE Val({ln_halve(k - 1, h, tf) : h \in {ln_halve(k - 1, s, tf)}})

RECURSIVE ln_double(_, _, _)
ln_double(k, s, tf) ==
    IF IsPanic(s) \/ ~ZLt(s.value, ONE(tf)) THEN s
    ELSE IF k = 0
    THEN Val({Strict(v, v, [value |-> v, n |-> s.n - 1]) :
              v \in {mul(s.value, from_int(ZInt(2), tf), tf)}})
    ELSE Val({ln_double(k - 1, h, tf) : h \in {ln_double(k - 1, s, tf)}})

\* each loop of ln runs at most 2^LnDoublings times in the model
LnDoublings == 7

\* a faulty variant: the series is not doubled
ln_series_undoubled(d, f, tf) ==
    Val({Val({Val({decrease_frac(add(result, mul(from_int(ZInt(d.n), tf), LN_2(tf), tf)), tf, f) :
                   result \in {taylor_series(x1, 2, "ln", x2, tf)}}) :
              x2 \in {mul(x1, x1, tf)}}) :
         x1 \in {div(sub(d.value, ONE(tf)), add(d.value, ONE(tf)), tf)}})

\* ln after its range reduction to d = [value, n]
ln_series(d, f, tf) ==
    Val({Val({Val({decrease_frac(add(mul(result, from_int(ZInt(2), tf), tf),
                                     mul(from_int(ZInt(d.n), tf), LN_2(tf), tf)), tf, f) :
                   result \in {taylor_series(x1, 2, "ln", x2, tf)}}) :
              x2 \in {mul(x1, x1, tf)}}) :
         x1 \in {div(sub(d.value, ONE(tf)), add(d.value, ONE(tf)), tf)}})

ln(x, f, tf) ==
    IF ~ZLt(Zero, x) THEN Panic("ln of non-positive number")
    ELSE Val({Val({Val({IF IsPanic(d) THEN d
                        ELSE IF ZLt(d.value, ONE(tf)) THEN Diverges
                        ELSE ln_series(d, f, tf) :
                        d \in {IF IsPanic(h) THEN h
                               ELSE IF ZLt(from_int(ZInt(2), tf), h.value) THEN Diverges
                               ELSE ln_double(LnDoublings, h, tf)}}) :
                   h \in {ln_halve(LnDoublings, Strict(v0, v0, [value |-> v0, n |-> 0]), tf)}}) :
              v0 \in {increase_frac(x, f, tf)}})

----------------------------------------------------------------------------
\* The calculator and the single-scale Num<F> it computes with (crate::num).
\* Its Add, Sub, Neg, Mul, Div and sqrt are those of Num<F, TF> line by line.

num_add(x, y) == wrapping_add(x, y)

num_sub(x, y) == wrapping_sub(x, y)

num_neg(x) == wrapping_neg(x)

num_mul(x, y, f) ==
    Val({Strict(r, r,
             IF ~r.neg
             THEN IDiv(IAdd(r, IDiv(SCALE(f), ZInt(2))), SCALE(f))
             ELSE IDiv(ISub(r, IDiv(SCALE(f), ZInt(2))), SCALE(f))) :
         r \in {wrapping_mul(x, y)}})

num_div(x, y, f) ==
    Strict(x, y,
        IF y = Zero THEN Panic("division by zero")
        ELSE Val({IF ~r.neg
                  THEN IDiv(IAdd(r, IDiv(y, ZInt(2))), y)
                  ELSE IDiv(ISub(r, IDiv(y, ZInt(2))), y) :
                  r \in {wrapping_mul(x, SCALE(f))}}))

\* Rem for Num<F>
num_rem(x, y) == IRem(x, y)

\* Num::ONE of the calculator's Num<F>: the raw value 1
num_ONE == ZInt(1)

num_from_int(n, f) == saturating_mul(n, SCALE(f))

\* the numerator is divided without rounding
num_from_2_longs(int, frac, f) ==
    IF f = 0 THEN int
    ELSE IAdd(saturating_mul(int, SCALE(f)), IDiv(frac, Pow10(19 - f)))

num_PI(f) ==
    num_from_2_longs(ZInt(3), ZDec(<<1, 4, 1, 5, 9, 2, 6, 5, 3, 5, 8, 9, 7, 9, 3, 2, 3, 8, 4>>), f)

num_TAU(f) ==
    num_from_2_longs(ZInt(6), ZDec(<<2, 8, 3, 1, 8, 5, 3, 0, 7, 1, 7, 9, 5, 8, 6, 4, 7, 6, 9>>), f)

num_PHI(f) ==
    num_from_2_longs(ZInt(6), ZDec(<<2, 8, 3, 1, 8, 5, 3, 0, 7, 1, 7, 9, 5, 8, 6, 4, 7, 6, 9>>), f)

num_EGAMMA(f) ==
    num_from_2_longs(ZInt(0), ZDec(<<5, 7, 7, 2, 1, 5, 6, 6, 4, 9, 0, 1, 5, 3, 2, 8, 6, 0, 6>>), f)

num_SQRT_2(f) ==
    num_from_2_longs(ZInt(1), ZDec(<<4, 1, 4, 2, 1, 3, 5, 6, 2, 3, 7, 3, 0, 9, 5, 0, 4, 8, 8>>), f)

num_E(f) ==
    num_from_2_longs(ZInt(2), ZDec(<<7, 1, 8, 2, 8, 1, 8, 2, 8, 4, 5, 9, 0, 4, 5, 2, 3, 5, 3>>), f)

num_sqrt(x, f) ==
    IF x.neg THEN Panic("sqrt of negative number")
    ELSE IF x = Zero THEN ZERO
    ELSE Val({Val({IF IsPanic(s) THEN s
                   ELSE IF ZLt(s.x1, s.x0) THEN Diverges
                   ELSE sqrt_round(n, s.x0) :
                   s \in {sqrt_loop(NewtonDoublings, sqrt_start(n))}}) :
              n \in {IMul(x, SCALE(f))}})

\* the table is indexed by the raw value itself (through a usize that holds
\* every raw value that is in the table)
num_factorial(x, f) ==
    IF x.neg THEN Panic("Factorial of negative number")
    ELSE IF IRem(x, SCALE(f)) # Zero THEN Panic("Factorial of non-integer")
    ELSE IF ZLt(ZInt(20), x) THEN Panic("Factorial will big what i64::MAX (n > 20)")
    ELSE saturating_mul(FactTable(Small(x)), SCALE(f))

\* Calculator::new
new == [a |-> ZERO, op |-> "None", b |-> ZERO, frac |-> FALSE, frac_digits |-> 0]

\* what handle_input and calc return: Ok(None), Ok(Some(v)), Err(CalcError::Calc)
OkNone == [none |-> TRUE]

OkSome(v) == [some |-> v]

Err == [err |-> "Calc"]

BinOps == {"Add", "Sub", "Mul", "Div"}

UnOps == {"Neg", "Sqrt", "Pow2", "Factorial"}

Consts == {"Pi", "Tau", "Phi", "EGamma", "Sqrt2", "E"}

\* a handler's outcome: the calculator it leaves and what it returns (a panic
\* leaves the calculator it was handed)
Outcome(c, ret) == [calc |-> c, ret |-> ret]

\* the operand the keys edit: a while no operator is pending, b after
operand(c) == IF c.op = "None" THEN c.a ELSE c.b

\* the calculator with that operand set to v; a panic in v aborts the handler
with_operand(c, v, rest) ==
    IF IsPanic(v) THEN Outcome(c, v)
    ELSE Outcome(IF c.op = "None" THEN [rest EXCEPT !.a = v] ELSE [rest EXCEPT !.b = v],
                 OkNone)

calc(c, f) ==
    IF c.op = "None" THEN Outcome(c, Err)
    ELSE Val({IF IsPanic(v) THEN Outcome(c, v)
              ELSE Outcome([c EXCEPT !.op = "None", !.a = v,
                                     !.b = IF c.op \in BinOps THEN ZERO ELSE c.b],
                           OkSome(v)) :
              v \in {CASE c.op = "Add" -> num_add(c.a, c.b)
                       [] c.op = "Sub" -> num_sub(c.a, c.b)
                       [] c.op = "Mul" -> num_mul(c.a, c.b, f)
                       [] c.op = "Div" -> num_div(c.a, c.b, f)
                       [] c.op = "Neg" -> num_neg(c.a)
                       [] c.op = "Sqrt" -> num_sqrt(c.a, f)
                       [] c.op = "Pow2" -> num_mul(c.a, c.a, f)
                       [] c.op = "Factorial" -> num_factorial(c.a, f)}})

\* a faulty variant: fractional digits are counted past the F-th
key_num_uncounted(c, n, f) ==
    IF c.frac
    THEN with_operand(c, operand(c), [c EXCEPT !.frac_digits = c.frac_digits + 1])
    ELSE with_operand(c,
             num_add(num_mul(operand(c), num_from_int(ZInt(10), f), f),
                     num_from_int(ZInt(n), f)),
             c)

\* Key::Num(n)
key_num(c, n, f) ==
    IF c.frac
    THEN IF c.frac_digits < f
         THEN with_operand(c,
                  num_add(operand(c), IMul(ZInt(n), Pow10(f - c.frac_digits - 1))),
                  [c EXCEPT !.frac_digits = c.frac_digits + 1])
         ELSE Outcome(c, OkNone)
    ELSE with_operand(c,
             num_add(num_mul(operand(c), num_from_int(ZInt(10), f), f),
                     num_from_int(ZInt(n), f)),
             c)

\* Key::Dot
key_dot(c) == Outcome([c EXCEPT !.frac = TRUE, !.frac_digits = 0], OkNone)

\* Key::BinOp(o)
key_binop(c, o) == Outcome([c EXCEPT !.op = o, !.frac = FALSE, !.frac_digits = 0], OkNone)

\* Key::UnOp(o)
key_unop(c, o, f) == calc([c EXCEPT !.op = o, !.frac = FALSE, !.frac_digits = 0], f)

\* Key::Const(k)
key_const(c, k, f) ==
    with_operand(c,
        CASE k = "Pi" -> num_PI(f)
          [] k = "Tau" -> num_TAU(f)
          [] k = "Phi" -> num_PHI(f)
          [] k = "EGamma" -> num_EGAMMA(f)
          [] k = "Sqrt2" -> num_SQRT_2(f)
          [] k = "E" -> num_E(f),
        c)

\* a faulty variant: the entry state is cleared before calc is asked
key_result_clearing(c, f) ==
    Val({IF "some" \in DOMAIN r.ret
         THEN Outcome([r.calc EXCEPT !.frac = FALSE, !.frac_digits = 0], r.ret)
         ELSE Outcome([c EXCEPT !.frac = FALSE, !.frac_digits = 0], r.ret) :
         r \in {calc(c, f)}})

\* Key::Result: an error of calc is returned before anything is changed
key_result(c, f) ==
    Val({IF "some" \in DOMAIN r.ret
         THEN Outcome([r.calc EXCEPT !.frac = FALSE, !.frac_digits = 0], r.ret)
         ELSE r :
         r \in {calc(c, f)}})

\* Key::Delete
key_delete(c, f) ==
    IF c.frac
    THEN IF c.frac_digits > 0
         THEN Val({with_operand(c,
                       ISub(operand(c),
                            IMul(IRem(IDiv(operand(c), digit_scale), ZInt(10)), digit_scale)),
                       [c EXCEPT !.frac_digits = c.frac_digits - 1,
                                 !.frac = c.frac_digits - 1 # 0]) :
                   digit_scale \in {Pow10(f - c.frac_digits)}})
         ELSE Outcome([c EXCEPT !.frac = FALSE], OkNone)
    ELSE with_operand(c, num_div(operand(c), num_from_int(ZInt(10), f), f), c)

\* Key::Clear
key_clear(c) == with_operand(c, ZERO, [c EXCEPT !.frac = FALSE, !.frac_digits = 0])

\* Key::Reset
key_reset(c) == Outcome(new, OkNone)

\* the keys: [k, n] with n the digit of a Num key and 0 otherwise; k is "Num",
\* "Dot", a BinOp, an UnOp, a Const, "Result", "Delete", "Clear", "Reset", or
\* "None" for the keys without a handler (None, Photomath, GPT5)
Key(k, n) == [k |-> k, n |-> n]

handle_input(c, key, f) ==
    CASE key.k = "Num" -> key_num(c, key.n, f)
      [] key.k = "Dot" -> key_dot(c)
      [] key.k \in BinOps -> key_binop(c, key.k)
      [] key.k \in UnOps -> key_unop(c, key.k, f)
      [] key.k \in Consts -> key_const(c, key.k, f)
      [] key.k = "Result" -> key_result(c, f)
      [] key.k = "Delete" -> key_delete(c, f)
      [] key.k = "Clear" -> key_clear(c)
      [] key.k = "Reset" -> key_reset(c)
      [] OTHER -> Outcome(c, OkNone)

----------------------------------------------------------------------------
\* The engine in use: an instantiation Num<F, TF>, a build, operands, and one
\* operation applied to them (then, after a product, the quotient by the same
\* divisor).

\* raw values -MaxUnits..MaxUnits and integers from_int(-MaxUnits..MaxUnits)
MaxUnits == 3

\* the fractional digits the arithmetic is exercised at
Fracs == {0, 1, 2, 6, 18}

Half(f) == ZQuot(SCALE(f), ZInt(2))

\* the raw values around which rounding, saturation and wraparound change
Operands(f) ==
    {ZInt(k) : k \in -MaxUnits..MaxUnits}
        \cup {from_int(ZInt(k), f) : k \in -MaxUnits..MaxUnits}
        \cup UNION {{half, ZNeg(half), ZSub(half, ZInt(1))} : half \in {Half(f)}}
        \cup UNION {{top, ZNeg(top), Sat(ZAdd(top, ZInt(1)))} : top \in {ZQuot(I64Max, SCALE(f))}}
        \cup {ZQuot(ZSub(I64Max, Half(f)), SCALE(f))}
        \cup {I64Max, I64Min, ZAdd(I64Min, ZInt(1))}

\* the divisors and second factors
Seconds(f) ==
    {ZInt(k) : k \in -MaxUnits..MaxUnits}
        \cup {ONE(f), neg(ONE(f)), from_int(ZInt(2), f), I64Max, I64Min}

InitArith ==
    /\ F \in Fracs
    /\ TF = F
    /\ NEW_F = F
    /\ checks \in BOOLEAN
    /\ a \in Operands(F)
    /\ b \in Seconds(F) \cup {neg(a)}
    /\ op = "new"
    /\ calculator = new
    /\ keys = <<>>
    /\ loop = Idle
    /\ input = InputState_new
    /\ deliveries = 0
    /\ out = ZERO

\* one operation of the engine on the operands
Apply(name, v) ==
    /\ op = "new"
    /\ op' = name
    /\ out' = v
    /\ UNCHANGED <<F, TF, NEW_F, checks, a, b, calculator, keys, loop, input, deliveries>>

Add == Apply("add", add(a, b))

Sub == Apply("sub", sub(a, b))

Neg == Apply("neg", neg(a))

Mul == Apply("mul", mul(a, b, F))

Div == Apply("div", div(a, b, F))

Rem == Apply("rem", rem(a, b))

\* (a * b) / b: the quotient of the product just formed
DivBack ==
    /\ op = "mul"
    /\ op' = "mul/div"
    /\ out' = div(out, b, F)
    /\ UNCHANGED <<F, TF, NEW_F, checks, a, b, calculator, keys, loop, input, deliveries>>

NextArith == Add \/ Sub \/ Neg \/ Mul \/ Div \/ Rem \/ DivBack

SpecArith == InitArith /\ [][NextArith]_vars

----------------------------------------------------------------------------
\* The functions of one argument, at every scale.

\* integers 0..MaxArg as arguments (the factorial table ends at 20)
MaxArg == 21

\* the working precision an instantiation of F fractional digits is given
\* (Num<6, 8>, Num<2, 4> in the source's tests)
Precision(f) == IF f + 2 > MaxFracDigits THEN MaxFracDigits ELSE f + 2

Arguments(f) ==
    {from_int(ZInt(k), f) : k \in 0..MaxArg}
        \cup {from_int(ZInt(k * k), f) : k \in 0..MaxUnits}
        \cup {ZInt(k) : k \in -MaxUnits..MaxUnits}
        \cup {neg(from_int(ZInt(k), f)) : k \in 1..MaxUnits}
        \cup {Half(f)}
        \cup UNION {{top, ZNeg(top), Sat(ZAdd(top, ZInt(1)))} : top \in {ZQuot(I64Max, SCALE(f))}}
        \cup UNION {{pi, neg(pi), add(pi, ZInt(1))} : pi \in {PI(f)}}
        \cup UNION {{tau, add(tau, ZInt(1)), neg(add(tau, ZInt(1))),
                     mul(tau, from_int(ZInt(MaxUnits), f), f)} : tau \in {TAU(f)}}
        \cup {I64Max, I64Min, ZAdd(I64Min, ZInt(1))}

InitFn ==
    /\ F \in 0..MaxFracDigits
    /\ TF = Precision(F)
    /\ NEW_F = F
    /\ checks \in BOOLEAN
    /\ a \in Arguments(F)
    /\ b = ZERO
    /\ op = "new"
    /\ calculator = new
    /\ keys = <<>>
    /\ loop = Idle
    /\ input = InputState_new
    /\ deliveries = 0
    /\ out = ZERO

\* from_int of the integer a
FromInt == Apply("from_int", from_int(a, F))

Sqrt == Apply("sqrt", sqrt(a, F))

Factorial == Apply("factorial", factorial(a, F))

NormalizeAngle == Apply("normalize_angle", normalize_angle(a, F))

NextFn == FromInt \/ Sqrt \/ Factorial \/ NormalizeAngle

SpecFn == InitFn /\ [][NextFn]_vars

----------------------------------------------------------------------------
\* The operations that have a domain, on arguments inside and outside it.

DomainArguments(f) ==
    {from_int(ZInt(k), f) : k \in {-1, 0, 1, 2, MaxArg - 1, MaxArg}}
        \cup {ZInt(-1), ZInt(1), Half(f), E(f), I64Max, I64Min}

InitDomain ==
    /\ F \in Fracs
    /\ TF = Precision(F)
    /\ NEW_F = F
    /\ checks \in BOOLEAN
    /\ a \in DomainArguments(F)
    /\ b \in {ZERO, ONE(F)}
    /\ op = "new"
    /\ calculator = new
    /\ keys = <<>>
    /\ loop = Idle
    /\ input = InputState_new
    /\ deliveries = 0
    /\ out = ZERO

Ln == Apply("ln", ln(a, F, TF))

NextDomain == Div \/ Sqrt \/ Factorial \/ Ln

SpecDomain == InitDomain /\ [][NextDomain]_vars

----------------------------------------------------------------------------
\* Angles: an angle, the angle a whole number of turns further, and the
\* normalised angle normalised again.

\* b is from_int(k) for -MaxUnits <= k <= MaxUnits: the number of turns
InitAngle ==
    /\ F \in {0, 2, 6}
    /\ TF = Precision(F)
    /\ NEW_F = F
    /\ checks \in BOOLEAN
    /\ a \in Arguments(F) \cup {sub(PI(F), ZInt(1)), neg(sub(PI(F), ZInt(1)))}
    /\ b \in {from_int(ZInt(k), F) : k \in -MaxUnits..MaxUnits}
    /\ op = "new"
    /\ calculator = new
    /\ keys = <<>>
    /\ loop = Idle
    /\ input = InputState_new
    /\ deliveries = 0
    /\ out = ZERO

\* normalize_angle of the value normalize_angle returned
NormalizeAgain ==
    /\ op = "normalize_angle"
    /\ ~IsPanic(out)
    /\ op' = "normalize_angle twice"
    /\ out' = normalize_angle(out, F)
    /\ UNCHANGED <<F, TF, NEW_F, checks, a, b, calculator, keys, loop, input, deliveries>>

\* normalize_angle of a + TAU * b
NormalizeTurned ==
    Apply("normalize_angle turned", normalize_angle(add(a, mul(TAU(F), b, F)), F))

NextAngle == NormalizeAngle \/ NormalizeAgain \/ NormalizeTurned

SpecAngle == InitAngle /\ [][NextAngle]_vars

----------------------------------------------------------------------------
\* Sine and cosine at the instantiations of the source's tests, Num<6, 8> and
\* Num<2, 4>.

\* the angles k / 8 for -MaxEighths <= k <= MaxEighths
MaxEighths == 64

TrigArguments(f) ==
    {div(from_int(ZInt(k), f), from_int(ZInt(8), f), f) : k \in -MaxEighths..MaxEighths}
        \cup UNION {{pi, neg(pi), div(pi, from_int(ZInt(2), f), f),
                     div(pi, from_int(ZInt(3), f), f), div(pi, from_int(ZInt(4), f), f),
                     div(pi, from_int(ZInt(6), f), f)} : pi \in {PI(f)}}
        \cup {TAU(f)}

InitTrig ==
    /\ F \in {2, 6}
    /\ TF = Precision(F)
    /\ NEW_F = F
    /\ checks \in BOOLEAN
    /\ a \in TrigArguments(F)
    /\ b = ZERO
    /\ op = "new"
    /\ calculator = new
    /\ keys = <<>>
    /\ loop = Idle
    /\ input = InputState_new
    /\ deliveries = 0
    /\ out = ZERO

Sin == Apply("sin", sin(a, F, TF))

Cos == Apply("cos", cos(a, F, TF))

\* sin(a) * sin(a) + cos(a) * cos(a)
SinCosSquares ==
    Apply("sin2+cos2",
          Val({add(mul(s, s, F), mul(c, c, F)) : s \in {sin(a, F, TF)}, c \in {cos(a, F, TF)}}))

Tan == Apply("tan", tan(a, F, TF))

Ctg == Apply("ctg", ctg(a, F, TF))

NextTrig == Sin \/ Cos \/ SinCosSquares

SpecTrig == InitTrig /\ [][NextTrig]_vars

\* the ratios are followed on the angles of at most MaxRatio radians
MaxRatio == 2

RatioArguments(f) ==
    {x \in TrigArguments(f) : ZLe(ZAbs(x), from_int(ZInt(MaxRatio), f))}

InitRatio ==
    /\ F \in {2, 6}
    /\ TF = Precision(F)
    /\ NEW_F = F
    /\ checks \in BOOLEAN
    /\ a \in RatioArguments(F)
    /\ b = ZERO
    /\ op = "new"
    /\ calculator = new
    /\ keys = <<>>
    /\ loop = Idle
    /\ input = InputState_new
    /\ deliveries = 0
    /\ out = ZERO

NextRatio == Tan \/ Ctg

SpecRatio == InitRatio /\ [][NextRatio]_vars

----------------------------------------------------------------------------
\* Precision conversion between F and NEW_F fractional digits.

\* the raw values around which the rounding of a conversion by 10^d changes
FracArguments(f, d) ==
    Operands(f)
        \cup UNION {{half, ZNeg(half), ZSub(half, ZInt(1)), ZNeg(ZSub(half, ZInt(1))),
                     ZAdd(half, Pow10(d)), ZNeg(ZAdd(half, Pow10(d))),
                     ZSub(I64Max, half), ZAdd(ZSub(I64Max, half), ZInt(1)),
                     ZAdd(I64Min, half), ZSub(ZAdd(I64Min, half), ZInt(1))} :
                    half \in {ZQuot(Pow10(d), ZInt(2))}}

InitFrac ==
    /\ F \in Fracs
    /\ TF = F
    /\ NEW_F \in Fracs
    /\ checks \in BOOLEAN
    /\ a \in FracArguments(F, IF NEW_F <= F THEN F - NEW_F ELSE NEW_F - F)
    /\ b = ZERO
    /\ op = "new"
    /\ calculator = new
    /\ keys = <<>>
    /\ loop = Idle
    /\ input = InputState_new
    /\ deliveries = 0
    /\ out = ZERO

IncreaseFrac == Apply("increase_frac", increase_frac(a, F, NEW_F))

DecreaseFrac == Apply("decrease_frac", decrease_frac(a, F, NEW_F))

NextFrac == IncreaseFrac \/ DecreaseFrac

SpecFrac == InitFrac /\ [][NextFrac]_vars

----------------------------------------------------------------------------
\* Construction from an integer part and a 19-digit fractional numerator.

\* the pairs the named constants are built from, in the order PI, TAU, PHI,
\* EGAMMA, SQRT_2, E, LN_2
ConstantParts ==
    <<<<ZInt(3), ZDec(<<1, 4, 1, 5, 9, 2, 6, 5, 3, 5, 8, 9, 7, 9, 3, 2, 3, 8, 4>>)>>,
      <<ZInt(6), ZDec(<<2, 8, 3, 1, 8, 5, 3, 0, 7, 1, 7, 9, 5, 8, 6, 4, 7, 6, 9>>)>>,
      <<ZInt(1), ZDec(<<6, 1, 8, 0, 3, 3, 9, 8, 8, 7, 4, 9, 8, 9, 4, 8, 4, 8, 2>>)>>,
      <<ZInt(0), ZDec(<<5, 7, 7, 2, 1, 5, 6, 6, 4, 9, 0, 1, 5, 3, 2, 8, 6, 0, 6>>)>>,
      <<ZInt(1), ZDec(<<4, 1, 4, 2, 1, 3, 5, 6, 2, 3, 7, 3, 0, 9, 5, 0, 4, 8, 8>>)>>,
      <<ZInt(2), ZDec(<<7, 1, 8, 2, 8, 1, 8, 2, 8, 4, 5, 9, 0, 4, 5, 2, 3, 5, 3>>)>>,
      <<ZInt(0), ZDec(<<6, 9, 3, 1, 4, 7, 1, 8, 0, 5, 5, 9, 9, 4, 5, 3, 0, 9, 4>>)>>>>

\* further integer parts and numerators: the pair of the source's test, a
\* tie, the numerators next to it, and the largest numerators
Parts ==
    {ConstantParts[i] : i \in 1..Len(ConstantParts)}
        \cup {<<ZInt(1), ZDec(<<2, 3, 4, 5, 0, 0, 0, 0, 0, 0, 0, 0, 0, 0, 0, 0, 0, 0, 0>>)>>}
        \cup {<<ZInt(k), fr>> :
                 k \in 0..MaxUnits,
                 fr \in {Zero, ZInt(1),
                         ZDec(<<5, 0, 0, 0, 0, 0, 0, 0, 0, 0, 0, 0, 0, 0, 0, 0, 0, 0, 0>>),
                         ZDec(<<4, 9, 9, 9, 9, 9, 9, 9, 9, 9, 9, 9, 9, 9, 9, 9, 9, 9, 9>>),
                         ZDec(<<9, 0, 0, 0, 0, 0, 0, 0, 0, 0, 0, 0, 0, 0, 0, 0, 0, 0, 0>>),
                         I64Max}}

\* a is the integer part and b the fractional numerator
InitConst ==
    /\ F \in 0..MaxFracDigits
    /\ TF = F
    /\ NEW_F = F
    /\ checks \in BOOLEAN
    /\ \E p \in Parts : a = p[1] /\ b = p[2]
    /\ op = "new"
    /\ calculator = new
    /\ keys = <<>>
    /\ loop = Idle
    /\ input = InputState_new
    /\ deliveries = 0
    /\ out = ZERO

From2Longs == Apply("from_2_longs", from_2_longs(a, b, F))

NextConst == From2Longs

SpecConst == InitConst /\ [][NextConst]_vars

----------------------------------------------------------------------------
\* The calculator at work: keys are handed to handle_input one after another.

\* the instantiations: Calculator<2> is the firmware's
CalcFracs == {0, 2}

\* any keys, up to MaxKeys of them
MaxKeys == 2

\* a number typed with the digits 0, 1 and 9 and one dot, up to MaxEntry keys
MaxEntry == 6

EntryDigits == {0, 1, 9}

\* a run of nines, up to MaxNines keys
MaxNines == 16

Keys ==
    {Key("Num", n) : n \in 0..9}
        \cup {Key(k, 0) : k \in {"Dot"} \cup BinOps \cup UnOps \cup Consts
                                   \cup {"Result", "Delete", "Clear", "Reset", "None"}}

\* the keys since the last Reset
RECURSIVE SinceReset(_)
SinceReset(ks) ==
    IF ks = <<>> \/ ks[Len(ks)].k = "Reset" THEN <<>>
    ELSE Append(SinceReset(SubSeq(ks, 1, Len(ks) - 1)), ks[Len(ks)])

\* ks types a number: digits taken from ds, and at most one dot
IsEntry(ks, ds) ==
    /\ \A i \in 1..Len(ks) : ks[i].k = "Dot" \/ (ks[i].k = "Num" /\ ks[i].n \in ds)
    /\ Cardinality({i \in 1..Len(ks) : ks[i].k = "Dot"}) <= 1

\* ks edits a number: the digits 1 and 9, dots and Delete
IsEdit(ks) ==
    \A i \in 1..Len(ks) : ks[i] \in {Key("Num", 1), Key("Num", 9), Key("Dot", 0), Key("Delete", 0)}

\* after a first key that is a binary operator, up to MaxPending keys
MaxPending == 3

\* the key sequences the model follows
Follows(key) ==
    \/ Len(keys) < MaxKeys
    \/ /\ Len(keys) < MaxEntry
       /\ IsEntry(Append(SinceReset(keys), key), EntryDigits)
    \/ /\ Len(keys) < MaxEntry
       /\ IsEdit(Append(keys, key))
    \/ /\ Len(keys) < MaxPending
       /\ keys # <<>>
       /\ keys[1].k \in BinOps
    \/ /\ Len(keys) < MaxNines
       /\ \A i \in 1..Len(keys) : keys[i] = Key("Num", 9)
       /\ key = Key("Num", 9)

InitCalc ==
    /\ F \in CalcFracs
    /\ TF = F
    /\ NEW_F = F
    /\ checks \in BOOLEAN
    /\ a = ZERO
    /\ b = ZERO
    /\ op = "new"
    /\ out = OkNone
    /\ calculator = new
    /\ keys = <<>>
    /\ loop = Idle
    /\ input = InputState_new
    /\ deliveries = 0

\* calc.handle_input(key); a panic ends the program
HandleInput(key) ==
    /\ ~IsPanic(out)
    /\ Follows(key)
    /\ \E r \in {handle_input(calculator, key, F)} :
           /\ calculator' = r.calc
           /\ out' = r.ret
    /\ keys' = Append(keys, key)
    /\ UNCHANGED <<F, TF, NEW_F, checks, a, b, op, loop, input, deliveries>>

NextCalc == \E key \in Keys : HandleInput(key)

SpecCalc == InitCalc /\ [][NextCalc]_vars

----------------------------------------------------------------------------
\* The loops, one iteration at a time: the Newton loop of sqrt, the halving
\* and doubling loops of ln, taylor_series of Num<F, TF>, and taylor_series
\* of the calculator's Num<F> under the term function of its sin.

\* a loop entered: its locals s, no iteration run, the locals of its caller
Frame(name, s, caller) == [name |-> name, s |-> s, steps |-> 0, caller |-> caller]

\* a function that has returned
Left(l) == [l EXCEPT !.name = "left"]

\* the body of the loop of Num<F, TF>::taylor_series on the locals s
taylor_body(s, tf) ==
    Val({IF IsPanic(t) THEN t
         ELSE Val({Strict(sum, sum,
                       [s EXCEPT !.sum = sum, !.dividend = t.dividend, !.result = t.result,
                                 !.n = s.n + s.acc, !.neg_flag = t.neg_flag]) :
                   sum \in {add(s.sum, t.result)}}) :
         t \in {next_term(s.kind, s.dividend, s.n, s.x2, s.neg_flag, tf)}})

\* Num<F>::taylor_series: max_iterations.unwrap_or(..)
num_max_iterations(f) == IF f < 4 THEN 6 ELSE IF f < 8 THEN 10 ELSE 15

\* the raw magnitude a term must exceed for the series to go on
Threshold == 10

\* term.0.abs(), which overflows at i64::MIN
num_term_abs(s) == IAbs(s.term)

\* a faulty variant: the size of the term is not looked at
num_taylor_capped(s, f) == s.n < num_max_iterations(f)

\* the condition of the loop of Num<F>::taylor_series
num_taylor_continue(s, f) ==
    /\ s.n < num_max_iterations(f)
    /\ ~IsPanic(num_term_abs(s))
    /\ ZLt(ZInt(Threshold), num_term_abs(s))

\* the term function Num<F>::sin hands to taylor_series
num_sin_term(term, n, x2, f) ==
    num_div(num_mul(term, x2, f), num_from_int(ZInt((2 * n + 1) * (2 * n + 2)), f), f)

\* the body of the loop of Num<F>::taylor_series
num_taylor_body(s, f) ==
    Val({IF IsPanic(t) THEN t
         ELSE [s EXCEPT !.term = t, !.sum = num_add(s.sum, t), !.n = s.n + 1] :
         t \in {num_sin_term(s.term, s.n, s.x2, f)}})

\* what Num<F>::taylor_series returns once its condition fails
num_taylor_result(s, f) ==
    IF IsPanic(s) THEN s
    ELSE IF s.n < num_max_iterations(f) /\ IsPanic(num_term_abs(s)) THEN num_term_abs(s)
    ELSE s.sum

\* the condition of the loop l
Runs(l) ==
    /\ ~IsPanic(l.s)
    /\ CASE l.name = "sqrt" -> ZLt(l.s.x1, l.s.x0)
         [] l.name = "ln halve" -> ZLt(from_int(ZInt(2), TF), l.s.value)
         [] l.name = "ln double" -> ZLt(l.s.value, ONE(TF))
         [] l.name = "taylor_series" -> l.s.n < max_iterations
         [] l.name = "num taylor_series" -> num_taylor_continue(l.s, F)
         [] OTHER -> FALSE

LoopPrecisions == {0, 2, 8, 18}

\* the iterations of one loop the model follows
MaxSteps == 66

\* the strides handed to taylor_series
MaxAcc == 3

HalfOne(tf) == IDiv(ONE(tf), ZInt(2))

LoopArguments(tf) ==
    UNION {{x, ZNeg(x)} :
           x \in {ZInt(k) : k \in {0, 1, 2, 3, 5, 9, 11, 1000}}
                 \cup {from_int(ZInt(k), tf) : k \in {1, 2, 3, 9}}
                 \cup {HalfOne(tf), IDiv(PI(tf), ZInt(6)), E(tf), I64Max,
                       ZDec(<<3, 5, 1, 8, 4, 3, 7, 2, 0, 8, 8, 8, 3, 2>>)}}
        \cup {I64Min}

InitLoop ==
    /\ TF \in LoopPrecisions
    /\ F \in {0, TF}
    /\ NEW_F = F
    /\ checks \in BOOLEAN
    /\ a \in LoopArguments(TF)
    /\ b = ZERO
    /\ op = "new"
    /\ out = ZERO
    /\ calculator = new
    /\ keys = <<>>
    /\ loop = Idle
    /\ input = InputState_new
    /\ deliveries = 0

\* one iteration of the running loop
Iterate(name, s) ==
    /\ loop.name = name
    /\ Runs(loop)
    /\ loop.steps < MaxSteps
    /\ loop' = [loop EXCEPT !.s = s, !.steps = loop.steps + 1]
    /\ UNCHANGED <<F, TF, NEW_F, checks, a, b, op, out, calculator, keys, input, deliveries>>

\* the running loop has left its condition, or has panicked
Leaves(name) ==
    /\ loop.name = name
    /\ ~Runs(loop)

\* x.sqrt() up to its loop
SqrtEnter ==
    /\ op = "new"
    /\ op' = "sqrt"
    /\ IF a.neg \/ a = Zero
       THEN /\ out' = sqrt(a, F)
            /\ loop' = Left(loop)
       ELSE /\ out' = out
            /\ loop' = Frame("sqrt", sqrt_start(IMul(a, SCALE(F))), Idle.caller)
    /\ UNCHANGED <<F, TF, NEW_F, checks, a, b, calculator, keys, input, deliveries>>

\* while x1 < x0
SqrtIterate == Iterate("sqrt", sqrt_loop(0, loop.s))

SqrtLeave ==
    /\ Leaves("sqrt")
    /\ out' = IF IsPanic(loop.s) THEN loop.s ELSE sqrt_round(loop.s.n, loop.s.x0)
    /\ loop' = Left(loop)
    /\ UNCHANGED <<F, TF, NEW_F, checks, a, b, op, calculator, keys, input, deliveries>>

\* x.ln() up to its first loop
LnEnter ==
    /\ op = "new"
    /\ op' = "ln"
    /\ IF ~Lt(Zero, a)
       THEN /\ out' = ln(a, F, TF)
            /\ loop' = Left(loop)
       ELSE /\ out' = out
            /\ \E v0 \in {increase_frac(a, F, TF)} :
                   loop' = Frame("ln halve", Strict(v0, v0, [value |-> v0, n |-> 0]),
                                 Idle.caller)
    /\ UNCHANGED <<F, TF, NEW_F, checks, a, b, calculator, keys, input, deliveries>>

\* while value > two
LnHalve == Iterate("ln halve", ln_halve(0, loop.s, TF))

LnHalved ==
    /\ Leaves("ln halve")
    /\ loop' = Frame("ln double", loop.s, Idle.caller)
    /\ UNCHANGED <<F, TF, NEW_F, checks, a, b, op, out, calculator, keys, input, deliveries>>

\* while value < ONE
LnDouble == Iterate("ln double", ln_double(0, loop.s, TF))

\* the call of taylor_series that follows the range reduction
LnDoubled ==
    /\ Leaves("ln double")
    /\ \E x \in {IF IsPanic(loop.s) THEN loop.s
                 ELSE div(sub(loop.s.value, ONE(TF)), add(loop.s.value, ONE(TF)), TF)} :
           loop' = Frame("taylor_series",
                         Strict(x, x, [kind |-> "ln", sum |-> x, dividend |-> x, result |-> x,
                                       n |-> 1 + 2, acc |-> 2, x2 |-> mul(x, x, TF),
                                       neg_flag |-> FALSE]),
                         loop.s)
    /\ UNCHANGED <<F, TF, NEW_F, checks, a, b, op, out, calculator, keys, input, deliveries>>

\* Num::<TF, TF>::taylor_series(a, acc, next) with the term function of ln or
\* of sin
TaylorEnter(kind, acc) ==
    /\ op = "new"
    /\ ~IsPanic(mul(a, a, TF))
    /\ op' = "taylor_series"
    /\ loop' = Frame("taylor_series",
                     [kind |-> kind, sum |-> a, dividend |-> a, result |-> a,
                      n |-> 1 + acc, acc |-> acc, x2 |-> mul(a, a, TF), neg_flag |-> FALSE],
                     Idle.caller)
    /\ UNCHANGED <<F, TF, NEW_F, checks, a, b, out, calculator, keys, input, deliveries>>

\* while n < max_iterations
TaylorIterate == Iterate("taylor_series", taylor_body(loop.s, TF))

\* taylor_series returns its sum; ln goes on with it
TaylorLeave ==
    /\ Leaves("taylor_series")
    /\ out' = IF IsPanic(loop.s) THEN loop.s
              ELSE IF op = "ln"
              THEN decrease_frac(add(mul(loop.s.sum, from_int(ZInt(2), TF), TF),
                                     mul(from_int(ZInt(loop.caller.n), TF), LN_2(TF), TF)),
                                 TF, F)
              ELSE loop.s.sum
    /\ loop' = Left(loop)
    /\ UNCHANGED <<F, TF, NEW_F, checks, a, b, op, calculator, keys, input, deliveries>>

\* Num::<F>::taylor_series(a, next_term, None) with the term function of sin
NumTaylorEnter ==
    /\ op = "new"
    /\ ~IsPanic(num_mul(num_neg(a), a, F))
    /\ op' = "num taylor_series"
    /\ loop' = Frame("num taylor_series",
                     [sum |-> a, term |-> a, n |-> 1, x2 |-> num_mul(num_neg(a), a, F)],
                     Idle.caller)
    /\ UNCHANGED <<F, TF, NEW_F, checks, a, b, out, calculator, keys, input, deliveries>>

\* while n < max_iterations && term.0.abs() > 10
NumTaylorIterate == Iterate("num taylor_series", num_taylor_body(loop.s, F))

NumTaylorLeave ==
    /\ Leaves("num taylor_series")
    /\ out' = num_taylor_result(loop.s, F)
    /\ loop' = Left(loop)
    /\ UNCHANGED <<F, TF, NEW_F, checks, a, b, op, calculator, keys, input, deliveries>>

NextLoop ==
    \/ SqrtEnter
    \/ SqrtIterate
    \/ SqrtLeave
    \/ LnEnter
    \/ LnHalve
    \/ LnHalved
    \/ LnDouble
    \/ LnDoubled
    \/ \E kind \in {"ln", "sin"}, acc \in 0..MaxAcc : TaylorEnter(kind, acc)
    \/ TaylorIterate
    \/ TaylorLeave
    \/ NumTaylorEnter
    \/ NumTaylorIterate
    \/ NumTaylorLeave

SpecLoop == InitLoop /\ [][NextLoop]_vars

----------------------------------------------------------------------------
\* The firmware: the joystick's cursor on the keyboard, and the main loop
\* that samples the button and the joystick and hands keys to Calculator<2>.

Dirs == {"Up", "Down", "Left", "Right", "Center"}

\* the literal of InputState::key, rows in the order written
keyboard_layout ==
    <<<<Key("None", 0), Key("None", 0), Key("Pi", 0), Key("None", 0), Key("None", 0), Key("None", 0)>>,
      <<Key("Sqrt", 0), Key("Num", 7), Key("Num", 8), Key("Num", 9), Key("Div", 0), Key("None", 0)>>,
      <<Key("Pow2", 0), Key("Num", 4), Key("Num", 5), Key("Num", 6), Key("Mul", 0), Key("None", 0)>>,
      <<Key("None", 0), Key("Num", 1), Key("Num", 2), Key("Num", 3), Key("Add", 0), Key("None", 0)>>,
      <<Key("None", 0), Key("Dot", 0), Key("Num", 0), Key("Result", 0), Key("Sub", 0), Key("None", 0)>>,
      <<Key("None", 0), Key("None", 0), Key("None", 0), Key("None", 0), Key("None", 0), Key("None", 0)>>>>

\* <[_]>::reverse
reverse(s) == [i \in 1..Len(s) |-> s[Len(s) + 1 - i]]

\* InputState::key: the reversed layout at row pos.0, column pos.1
key(i) ==
    IF i.pos[1] + 1 \in DOMAIN reverse(keyboard_layout)
          /\ i.pos[2] + 1 \in DOMAIN reverse(keyboard_layout)[i.pos[1] + 1]
    THEN reverse(keyboard_layout)[i.pos[1] + 1][i.pos[2] + 1]
    ELSE Key("None", 0)

\* u8::saturating_add(1) and u8::saturating_sub(1)
saturating_inc(n) == IF n = 255 THEN 255 ELSE n + 1

saturating_dec(n) == IF n = 0 THEN 0 ELSE n - 1

\* InputState::update: the state it leaves and what it returns
update(i, dir, pressed) ==
    [input |-> [i EXCEPT !.old_dir = dir,
                         !.already_pressed = IF ~i.already_pressed /\ pressed THEN TRUE
                                             ELSE IF i.already_pressed /\ ~pressed THEN FALSE
                                             ELSE i.already_pressed],
     ret |-> (dir # i.old_dir /\ dir # "Center") \/ (~i.already_pressed /\ pressed)]

\* InputState::update_position
update_position(i, dir) ==
    [i EXCEPT !.pos = CASE dir = "Up" -> <<i.pos[1], saturating_inc(i.pos[2])>>
                        [] dir = "Down" -> <<i.pos[1], saturating_dec(i.pos[2])>>
                        [] dir = "Left" -> <<saturating_dec(i.pos[1]), i.pos[2]>>
                        [] dir = "Right" -> <<saturating_inc(i.pos[1]), i.pos[2]>>
                        [] OTHER -> i.pos]

\* InputState::reset_position
reset_position(i) == [i EXCEPT !.pos = DEFAULT_POS]

\* display_number(..).unwrap(): the 19 places of nums overflow when a positive
\* value has 19 digits, the last of them not 0, and the point is pushed too
display_number(v) ==
    IF ZLe(Pow10(18), v) /\ ZRem(v, ZInt(10)) # Zero
    THEN Panic("called Result::unwrap() on an Err value")
    ELSE v

\* one pass of main's loop on the samples dir and pressed: the calculator,
\* the input state, what handle_input returned (out, kept when no key was
\* handed over) and whether a key was handed over
main_loop(c, i, o, dir, pressed) ==
    Val({IF u.ret /\ pressed
         THEN Val({[calc |-> r.calc,
                    input |-> IF IsPanic(r.ret) \/ "some" \in DOMAIN r.ret
                              THEN u.input ELSE reset_position(u.input),
                    out |-> IF "some" \in DOMAIN r.ret /\ IsPanic(display_number(r.ret.some))
                            THEN display_number(r.ret.some) ELSE r.ret,
                    handed |-> TRUE] :
                   r \in {handle_input(c, key(u.input), 2)}})
         ELSE [calc |-> c,
               input |-> IF u.ret THEN update_position(u.input, dir) ELSE u.input,
               out |-> o,
               handed |-> FALSE] :
         u \in {update(i, dir, pressed)}})

\* the keys main hands over in the model
MaxPresses == 2

\* the cursor is followed on the coordinates 0..MaxPos
MaxPos == 6

InitMain ==
    /\ F = 2
    /\ TF = F
    /\ NEW_F = F
    /\ checks \in BOOLEAN
    /\ a = ZERO
    /\ b = ZERO
    /\ op = "new"
    /\ out = OkNone
    /\ calculator = new
    /\ keys = <<>>
    /\ loop = Idle
    /\ input = InputState_new
    /\ deliveries = 0

\* one pass of `loop { .. }` in main
MainLoop(dir, pressed) ==
    /\ ~IsPanic(out)
    /\ \E m \in {main_loop(calculator, input, out, dir, pressed)} :
           /\ m.handed => Len(keys) < MaxPresses
           /\ m.input.pos[1] <= MaxPos /\ m.input.pos[2] <= MaxPos
           /\ calculator' = m.calc
           /\ input' = m.input
           /\ out' = m.out
           /\ keys' = IF m.handed THEN Append(keys, key(update(input, dir, pressed).input))
                      ELSE keys
           /\ deliveries' = IF m.handed THEN deliveries + 1
                            ELSE IF pressed THEN deliveries ELSE 0
    /\ UNCHANGED <<F, TF, NEW_F, checks, a, b, op, loop>>

NextMain == \E dir \in Dirs, pressed \in BOOLEAN : MainLoop(dir, pressed)

SpecMain == InitMain /\ [][NextMain]_vars

----------------------------------------------------------------------------
\* Properties.  The exact values they compare with are computed on the
\* unbounded integers, apart from the operations of the engine.

\* z is the i64 that two's-complement arithmetic gives for the exact value e
WrapOf(z, e) == ~IsPanic(z) /\ Fits(z) /\ ZRem(ZSub(z, e), Two64) = Zero

\* the exact quotient n / d (d # 0) rounded to the nearest integer, ties away
\* from zero
RoundAway(n, d) ==
    Z(n.neg # d.neg,
      NDivMod(NAdd(NMulSmall(n.mag, 2), d.mag), NMulSmall(d.mag, 2))[1])

\* |x - y| <= k
Within(x, y, k) == ~IsPanic(x) /\ ~IsPanic(y) /\ ZLe(ZAbs(ZSub(x, y)), ZInt(k))

\* C1: x + ZERO = x and x + (-x) = ZERO exactly for every raw value, i64::MIN
\* and i64::MAX included; Add and Neg are two's-complement wraparound and never
\* fail.
AddIdentityInverse ==
    /\ op = "add" => WrapOf(out, ZAdd(a, b))
    /\ op = "neg" => WrapOf(out, ZNeg(a))
    /\ op = "add" /\ b = ZERO => out = a
    /\ op = "add" /\ b = neg(a) => out = ZERO

\* i64::MIN is its own negation, and their sum wraps to zero
AddInverseAtMin == op = "add" /\ a = I64Min /\ b = neg(a) /\ b = I64Min /\ out = ZERO

\* C2: a * b is the wrapped product of the raw values divided by 10^F and
\* rounded half away from zero, for every pair of operands; and
\* from_int(m) * from_int(n) = from_int(m * n) when nothing overflows.
MulRoundsWrappedProduct ==
    op = "mul" =>
        /\ out = RoundAway(Wrap(ZMul(a, b)), SCALE(F))
        /\ \A m, n \in -MaxUnits..MaxUnits :
               (a = from_int(ZInt(m), F) /\ b = from_int(ZInt(n), F) /\ Fits(ZMul(a, b)))
                   => out = from_int(ZInt(m * n), F)

\* a product within half a scale of i64::MAX: adding the half overflows
MulRoundingOverflows ==
    /\ op = "mul" /\ F = 2 /\ a = I64Max /\ b = ZInt(1)
    /\ out # RoundAway(I64Max, SCALE(2))

\* C3: when a.raw * 10^F fits in i64 and b.raw # 0, a / b is the exact quotient
\* a.raw * 10^F / b.raw rounded to the nearest integer, ties away from zero,
\* whatever the signs of a and b.
DivRoundsExactQuotient ==
    (op = "div" /\ b # ZERO /\ Fits(ZMul(a, SCALE(F))))
        => out = RoundAway(ZMul(a, SCALE(F)), b)

\* 1 / -2 at F = 0: the exact quotient -0.5 rounds away from zero to -1
DivByNegativeRoundsToZero ==
    op = "div" /\ F = 0 /\ a = ZInt(1) /\ b = ZInt(-2) /\ out = ZERO

\* C4: every domain violation aborts where it is detected and yields no
\* value: division by a zero raw value, sqrt of a negative operand, ln of a
\* zero or negative operand, factorial of an operand that is negative, not a
\* multiple of the scale, or of integer part above 20.
DomainViolationsAbort ==
    /\ (op = "div" /\ b = ZERO) => out = Panic("division by zero")
    /\ (op = "sqrt" /\ a.neg) => out = Panic("sqrt of negative number")
    /\ (op = "ln" /\ ~ZLt(ZERO, a)) => out = Panic("ln of non-positive number")
    /\ (op = "factorial" /\ a.neg) => out = Panic("Factorial of negative number")
    /\ (op = "factorial" /\ ~a.neg /\ ZRem(a, SCALE(F)) # Zero)
           => out = Panic("Factorial of non-integer")
    /\ (op = "factorial" /\ ~a.neg /\ ZRem(a, SCALE(F)) = Zero
            /\ ZLt(ZInt(20), ZQuot(a, SCALE(F))))
           => out = Panic("Factorial will big what i64::MAX (n > 20)")

\* factorial of 21 is refused
FactorialRefusesTwentyOne ==
    op = "factorial" /\ F = 2 /\ a = from_int(ZInt(21), 2) /\ IsPanic(out)

\* C5 as stated: x * ONE is within one raw unit of x for every representable x.
MulOneWithinOneUnit == (op = "mul" /\ b = ONE(F)) => Within(out, a, 1)

\* C5: x * ONE = x exactly whenever |x.raw| * 10^F + 10^F / 2 <= i64::MAX (the
\* product and its rounding fit in i64).
MulOneExactWhenFits ==
    (op = "mul" /\ b = ONE(F) /\ Fits(ZAdd(ZAbs(ZMul(a, SCALE(F))), Half(F))))
        => out = a

\* the largest x whose rounded product with ONE fits, at two fractional digits
MulOneAtLargestFitting ==
    /\ op = "mul" /\ F = 2 /\ b = ONE(2)
    /\ a = ZQuot(ZSub(I64Max, Half(2)), SCALE(2))
    /\ out = a

\* C6 as stated: (x * y) / y is within 3 raw units of x for every x and every
\* y # 0.
MulDivWithinThree == (op = "mul/div" /\ b # ZERO) => Within(out, a, 3)

\* C6: when neither the product nor the quotient overflows (|x.raw * y.raw| +
\* 10^F / 2 and |p.raw| * 10^F + |y.raw| are at most i64::MAX, p = x * y),
\* (x * y) / y is within 10^F / (2 |y.raw|) + 2 raw units of x, so within 3
\* raw units when |y.raw| >= 10^F / 2.
MulDivWithinScaledBound ==
    LET p == mul(a, b, F)
    IN  (op = "mul/div" /\ b # ZERO
            /\ Fits(ZAdd(ZAbs(ZMul(a, b)), Half(F)))
            /\ Fits(ZAdd(ZMul(ZAbs(p), SCALE(F)), ZAbs(b))))
        => /\ ~IsPanic(out)
           /\ ZLe(ZMul(ZMul(ZInt(2), ZAbs(b)), ZAbs(ZSub(out, a))),
                  ZAdd(SCALE(F), ZMul(ZInt(4), ZAbs(b))))
           /\ ZLe(SCALE(F), ZMul(ZInt(2), ZAbs(b))) => Within(out, a, 3)

\* half a unit times one raw unit, divided back: the product rounds to one
\* raw unit and the quotient is a whole unit, half a unit from x
MulDivBySmallestUnit ==
    /\ op = "mul/div" /\ F = 2 /\ a = Half(2) /\ b = ZInt(1)
    /\ out = ONE(2)

\* C7: from_int(n).raw = n * 10^F when that fits in i64, else i64::MAX for
\* n > 0 and i64::MIN for n < 0; it never wraps and never fails.
FromIntSaturates ==
    op = "from_int" =>
        out = IF Fits(ZMul(a, SCALE(F))) THEN ZMul(a, SCALE(F))
              ELSE IF a.neg THEN I64Min ELSE I64Max

\* the first integer past the largest that fits saturates
FromIntPastLargest ==
    /\ op = "from_int" /\ F = 2 /\ a = ZAdd(ZQuot(I64Max, SCALE(2)), ZInt(1))
    /\ out = I64Max

\* C8: sqrt(ZERO) = ZERO; for x > 0 with n = x.raw * 10^F fitting in i64 the
\* result r is the integer nearest to the square root of n, r*r - r < n <=
\* r*r + r; so sqrt(from_int(k*k)) = from_int(k), and at Num<6, 8>
\* sqrt(from_int(2)) = SQRT_2.
SqrtNearest ==
    LET n == ZMul(a, SCALE(F))
    IN  op = "sqrt" =>
            /\ a = ZERO => out = ZERO
            /\ (ZLt(ZERO, a) /\ Fits(n)) =>
                   /\ ~IsPanic(out)
                   /\ ZLt(ZSub(ZMul(out, out), out), n)
                   /\ ZLe(n, ZAdd(ZMul(out, out), out))
            /\ \A k \in 0..MaxUnits :
                   (a = from_int(ZInt(k * k), F) /\ Fits(n)) => out = from_int(ZInt(k), F)
            /\ (F = 6 /\ a = from_int(ZInt(2), 6)) => out = SQRT_2(6)

\* the square root of two at six fractional digits rounds up to the constant
SqrtOfTwo == op = "sqrt" /\ F = 6 /\ a = from_int(ZInt(2), 6) /\ out = SQRT_2(6)

\* k! on the unbounded integers
RECURSIVE ZFact(_)
ZFact(k) == IF k = 0 THEN ZInt(1) ELSE ZMul(ZInt(k), ZFact(k - 1))

\* C9 as stated: for every F in 0..18 and k in 0..20,
\* factorial(from_int(k)).raw = k! * 10^F.
FactorialIsScaledTable ==
    \A k \in 0..20 :
        (op = "factorial" /\ a = from_int(ZInt(k), F))
            => out = ZMul(ZFact(k), SCALE(F))

\* C9: for every F in 0..18 and k in 0..20 with k! * 10^F <= i64::MAX,
\* factorial(from_int(k)).raw = k! * 10^F.
FactorialIsScaledTableWhenFits ==
    \A k \in 0..20 :
        (op = "factorial" /\ a = from_int(ZInt(k), F) /\ Fits(ZMul(ZFact(k), SCALE(F))))
            => out = ZMul(ZFact(k), SCALE(F))

\* 20! at F = 0, the last entry of the table
FactorialOfTwenty ==
    op = "factorial" /\ F = 0 /\ a = from_int(ZInt(20), 0) /\ out = ZFact(20)

\* C10: for every raw i64 value, normalize_angle returns a value in
\* [-PI, PI].
NormalizedWithinPi ==
    op = "normalize_angle" =>
        ~IsPanic(out) /\ ZLe(ZNeg(PI(F)), out) /\ ZLe(out, PI(F))

\* C11: normalize_angle is idempotent and periodic: normalising the
\* normalised angle changes nothing, and for every angle x and every whole
\* number k of turns with x + k * TAU inside i64,
\* normalize_angle(x + TAU * from_int(k)) = normalize_angle(x) exactly.
NormalizeIdempotentPeriodic ==
    /\ op = "normalize_angle twice" => out = normalize_angle(a, F)
    /\ (op = "normalize_angle turned" /\ Fits(ZAdd(a, ZMul(TAU(F), ZQuot(b, SCALE(F))))))
           => out = normalize_angle(a, F)

\* PI and PI + TAU at six fractional digits: PI is kept, but PI + TAU is 1.5
\* turns rounded to 2, and comes out just above -PI
TurnedPiChangesSign ==
    /\ op = "normalize_angle turned" /\ F = 6 /\ a = PI(6) /\ b = ONE(6)
    /\ out = neg(sub(PI(6), ZInt(1)))

\* C12: at Num<6, 8> sine and cosine are exact at the quadrant angles:
\* sin(ZERO) = ZERO, sin(PI) = ZERO, sin(PI / 2) = ONE, cos(ZERO) = ONE,
\* cos(PI) = -ONE and cos(PI / 2) = ZERO.
SinCosAtQuadrants ==
    (F = 6 /\ TF = 8) =>
        /\ (op = "sin" /\ a = ZERO) => out = ZERO
        /\ (op = "sin" /\ a = PI(6)) => out = ZERO
        /\ (op = "sin" /\ a = div(PI(6), from_int(ZInt(2), 6), 6)) => out = ONE(6)
        /\ (op = "cos" /\ a = ZERO) => out = ONE(6)
        /\ (op = "cos" /\ a = PI(6)) => out = neg(ONE(6))
        /\ (op = "cos" /\ a = div(PI(6), from_int(ZInt(2), 6), 6)) => out = ZERO

\* the sine of a quarter turn, raw 1570797, is one
SinOfQuarterTurn ==
    /\ op = "sin" /\ F = 6 /\ TF = 8
    /\ a = div(PI(6), from_int(ZInt(2), 6), 6) /\ a = ZInt(1570797)
    /\ out = ONE(6)

\* C13: at Num<6, 8>, for every angle k / 8 with |k| <= MaxEighths and the
\* fractions of PI, sin(x) * sin(x) + cos(x) * cos(x) is within 10 raw units
\* (10^-(F-1)) of ONE.
SinCosSquaresNearOne ==
    (op = "sin2+cos2" /\ F = 6 /\ TF = 8) => Within(out, ONE(6), 10)

\* at two radians the squares add up to two raw units less than one
SinCosSquaresOfTwo ==
    /\ op = "sin2+cos2" /\ F = 6 /\ TF = 8 /\ a = from_int(ZInt(2), 6)
    /\ out = sub(ONE(6), ZInt(2))

\* C14: at Num<6, 8> the logarithm is exact at ONE, E and two:
\* ln(ONE) = ZERO, ln(E) = ONE and ln(from_int(2)) = LN_2.
LnExactValues ==
    (op = "ln" /\ F = 6 /\ TF = 8) =>
        /\ a = ONE(6) => out = ZERO
        /\ a = E(6) => out = ONE(6)
        /\ a = from_int(ZInt(2), 6) => out = LN_2(6)

\* the logarithm of E, raw 2718282, is one
LnOfE == op = "ln" /\ F = 6 /\ TF = 8 /\ a = E(6) /\ a = ZInt(2718282) /\ out = ONE(6)

\* C15: for every raw value and every NEW_F <= F, decrease_frac returns
\* raw / 10^(F - NEW_F) rounded to the nearest integer, ties away from zero
\* (the raw value itself when NEW_F = F); decrease_frac with NEW_F > F and
\* increase_frac with NEW_F < F fail with a precondition violation.
DecreaseFracRoundsAway ==
    /\ (op = "decrease_frac" /\ NEW_F <= F) => out = RoundAway(a, Pow10(F - NEW_F))
    /\ (op = "decrease_frac" /\ NEW_F = F) => out = a
    /\ (op = "decrease_frac" /\ NEW_F > F)
           => out = Panic("NEW_F must be <= F when decreasing precision")
    /\ (op = "increase_frac" /\ NEW_F < F)
           => out = Panic("NEW_F must be >= F when increasing precision")

\* i64::MAX from two fractional digits to none: adding half the divisor
\* overflows
DecreaseFracOverflows ==
    /\ op = "decrease_frac" /\ F = 2 /\ NEW_F = 0 /\ a = I64Max
    /\ out # RoundAway(I64Max, Pow10(2))
    /\ ~checks => out = ZNeg(ZDec(<<9, 2, 2, 3, 3, 7, 2, 0, 3, 6, 8, 5, 4, 7, 7, 5, 7>>))

\* the integer part i and the numerator fr of 19 digits, as a value of f
\* fractional digits: i * 10^f + fr / 10^(19 - f), rounded half away from zero
RoundedParts(i, fr, f) ==
    ZAdd(ZMul(i, SCALE(f)), RoundAway(fr, ZMul(ZInt(10), Pow10(18 - f))))

\* C16: for every F in 0..18, F = 0 included, and every non-negative integer
\* part i and 19-digit numerator fr, from_2_longs(i, fr).raw is i * 10^F plus
\* fr / 10^(19 - F) rounded half away from zero; so each named constant is
\* the mathematical constant rounded to F fractional digits.
From2LongsRounds ==
    /\ op = "from_2_longs" => out = RoundedParts(a, b, F)
    /\ <<PI(F), TAU(F), PHI(F), EGAMMA(F), SQRT_2(F), E(F), LN_2(F)>>
           = [i \in 1..7 |-> RoundedParts(ConstantParts[i][1], ConstantParts[i][2], F)]

\* the golden ratio without fractional digits is 1, not 2
PhiWithoutFractionIsOne ==
    /\ op = "from_2_longs" /\ F = 0 /\ a = ConstantParts[3][1] /\ b = ConstantParts[3][2]
    /\ out = ZInt(1) /\ PHI(0) = ZInt(1) /\ RoundedParts(a, b, 0) = ZInt(2)

\* the operand the claim describes for the keys ks[i..]: v so far, dot once
\* the dot was typed, m fractional digits placed
RECURSIVE EntryValue(_, _, _, _, _, _)
EntryValue(ks, i, f, v, dot, m) ==
    IF i > Len(ks) THEN v
    ELSE IF ks[i].k = "Dot" THEN EntryValue(ks, i + 1, f, v, TRUE, m)
    ELSE IF ~dot
    THEN EntryValue(ks, i + 1, f,
                    ZAdd(ZMul(v, ZInt(10)), ZMul(ZInt(ks[i].n), SCALE(f))), dot, m)
    ELSE IF m < f
    THEN EntryValue(ks, i + 1, f,
                    ZAdd(v, ZMul(ZInt(ks[i].n), Pow10(f - m - 1))), dot, m + 1)
    ELSE EntryValue(ks, i + 1, f, v, dot, m)

\* C17: from a new or Reset calculator, after the integer digits d1..dk, one
\* Dot and the fractional digits e1..em, operand a is (d1..dk as a decimal
\* integer) * 10^F + the sum over i <= min(m, F) of e_i * 10^(F - i);
\* fractional digits after the F-th leave the operand unchanged.
EntryAccumulatesDigits ==
    IsEntry(SinceReset(keys), 0..9) =>
        /\ ~IsPanic(out)
        /\ calculator.a = EntryValue(SinceReset(keys), 1, F, ZERO, FALSE, 0)

\* fifteen nines on the firmware's Calculator<2>: the number fits in i64 a
\* hundred times over, the operand does not hold it
FifteenNines ==
    /\ F = 2 /\ Len(keys) = 15 /\ \A i \in 1..15 : keys[i] = Key("Num", 9)
    /\ ~IsPanic(out)
    /\ Fits(EntryValue(keys, 1, 2, ZERO, FALSE, 0))
    /\ calculator.a # EntryValue(keys, 1, 2, ZERO, FALSE, 0)

\* C18: handle_input returns Err(CalcError::Calc) exactly when the key is
\* Result and no operator is pending, and then no field of the calculator
\* changes; calc returns Err and changes nothing when op is None.
ErrOnlyForResultWithoutOp ==
    [][/\ (out' = Err) <=> (keys'[Len(keys')].k = "Result" /\ calculator.op = "None")
       /\ (out' = Err) => calculator' = calculator
       /\ (calculator.op = "None") => calc(calculator, F) = Outcome(calculator, Err)]_vars

\* Result right after a dot: the error leaves the entry state as it was
ErrAfterDot ==
    /\ out = Err /\ Len(keys) = 2 /\ keys[1].k = "Dot" /\ keys[2].k = "Result"
    /\ calculator = [new EXCEPT !.frac = TRUE]

\* the iterations a loop that halves or doubles an i64 can need: its width
WordBits == 64

\* C19: every loop of the numeric core ends after a statically bounded number
\* of iterations for every input: taylor_series for any first term, stride
\* acc and term function after at most 14 calls of the term function, the
\* Newton loop of sqrt for any non-negative operand, and the halving and
\* doubling loops of ln for any positive operand at any TF in 0..18.
LoopsBounded ==
    /\ loop.name = "taylor_series" => loop.steps <= 14
    /\ loop.name \in {"sqrt", "ln halve", "ln double"} => loop.steps <= WordBits

\* a stride of 0: after fifteen calls of the term function the index is
\* still 1 and the loop is still running
TaylorNeverAdvances ==
    /\ op = "taylor_series" /\ loop.name = "taylor_series" /\ ~IsPanic(loop.s)
    /\ loop.s.acc = 0 /\ loop.s.n = 1 /\ loop.steps = 15
    /\ Runs(loop)

\* the current term of a series accumulator is within the threshold
SmallTerm(l) ==
    /\ ~IsPanic(l.s)
    /\ \/ l.name = "taylor_series" /\ ZLe(ZAbs(l.s.result), ZInt(Threshold))
       \/ l.name = "num taylor_series" /\ ZLe(ZAbs(l.s.term), ZInt(Threshold))

\* the indices 1 + acc, 1 + 2 acc, .. below max_iterations
Indices(acc) == {n \in 1 + acc..max_iterations - 1 : (n - 1) % acc = 0}

\* C20 as stated: a series accumulator never calls the term function again
\* once the current term is within the threshold, cap reached or not.
SeriesStopsAtSmallTerm ==
    [][SmallTerm(loop) => loop'.steps = loop.steps]_vars

\* C20: taylor_series of the calculator's Num<F> never calls the term function
\* again once the current term is within the threshold; taylor_series of
\* Num<F, TF> has no threshold and, unless a term panics, returns after
\* calling the term function at each index 1 + acc, 1 + 2 acc, .. below 15.
NumSeriesStopsAtSmallTerm ==
    [][/\ (loop.name = "num taylor_series" /\ SmallTerm(loop)) => loop'.steps = loop.steps
       /\ (loop.name = "taylor_series" /\ loop'.name = "left" /\ ~IsPanic(loop.s))
              => loop.steps = Cardinality(Indices(loop.s.acc))]_vars

\* a series of Num<F> that has returned below its cap, after some terms, on a
\* term within the threshold
SeriesLeftEarly ==
    /\ op = "num taylor_series" /\ loop.name = "left" /\ ~IsPanic(loop.s)
    /\ loop.steps >= 2 /\ loop.s.n < num_max_iterations(F)
    /\ ZLe(ZAbs(loop.s.term), ZInt(Threshold))

\* C21: tan is sin / cos and ctg is cos / sin under the fixed-point divide:
\* tan aborts with "division by zero" exactly when cos(x) has raw value 0 and
\* ctg exactly when sin(x) has raw value 0, and neither returns an extreme
\* value in place of the abort.
TanCtgAbortAtZero ==
    /\ op = "tan" =>
           /\ (out = Panic("division by zero")) <=> (cos(a, F, TF) = Zero)
           /\ cos(a, F, TF) # Zero => out = div(sin(a, F, TF), cos(a, F, TF), F)
    /\ op = "ctg" =>
           /\ (out = Panic("division by zero")) <=> (sin(a, F, TF) = Zero)
           /\ sin(a, F, TF) # Zero => out = div(cos(a, F, TF), sin(a, F, TF), F)

\* the tangent of a quarter turn at Num<6, 8>: the cosine is 0 and the call
\* aborts
TanOfQuarterTurn ==
    /\ F = 6 /\ TF = 8 /\ op = "tan"
    /\ a = div(PI(6), from_int(ZInt(2), 6), 6)
    /\ cos(a, F, TF) = Zero
    /\ out = Panic("division by zero")

\* the keys are digit keys and then the key last
DigitsThen(ks, last) ==
    /\ Len(ks) >= 2
    /\ ks[Len(ks)].k = last
    /\ \A i \in 1..Len(ks) - 1 : ks[i].k = "Num"

\* the integer the digit keys before the last key spell
Spelled(ks) == EntryValue(SubSeq(ks, 1, Len(ks) - 1), 1, 0, ZERO, FALSE, 0)

\* C22: on the calculator, with an integer k in 0..20 typed with digit keys
\* into operand a, the Factorial key returns k! (raw k! * 10^F whenever that
\* fits in i64).
FactorialKeyOfInteger ==
    (/\ DigitsThen(keys, "Factorial")
     /\ ZLe(Spelled(keys), ZInt(20))
     /\ Fits(ZMul(FactTable(Small(Spelled(keys))), SCALE(F))))
        => out = OkSome(ZMul(FactTable(Small(Spelled(keys))), SCALE(F)))

\* 3 and Factorial on the firmware's Calculator<2>: operand a is 3.00, raw
\* 300, and the call aborts as for a number above 20
FactorialOfThreeAborts ==
    /\ F = 2 /\ keys = <<Key("Num", 3), Key("Factorial", 0)>>
    /\ calculator.a = ZInt(300)
    /\ out = Panic("Factorial will big what i64::MAX (n > 20)")

\* the place of a constant key's constant in ConstantParts
ConstantOf(k) ==
    CASE k = "Pi" -> 1 [] k = "Tau" -> 2 [] k = "Phi" -> 3
      [] k = "EGamma" -> 4 [] k = "Sqrt2" -> 5 [] k = "E" -> 6

\* C23: in the calculator's Num<F> each named constant is the mathematical
\* constant rounded half away from zero to F fractional digits (at F = 2:
\* 3.14, 6.28, 1.62, 0.58, 1.41, 2.72, and ONE = 1.00), so the six constant
\* keys load six pairwise distinct values into the current operand.
ConstantKeysRounded ==
    /\ num_ONE = SCALE(F)
    /\ (keys # <<>> /\ keys[Len(keys)].k \in Consts /\ ~IsPanic(out))
           => operand(calculator)
                  = RoundedParts(ConstantParts[ConstantOf(keys[Len(keys)].k)][1],
                                 ConstantParts[ConstantOf(keys[Len(keys)].k)][2], F)
    /\ F = 2 => Cardinality({key_const(new, k, F).calc.a : k \in Consts}) = 6

\* the Phi key on the firmware's Calculator<2> loads 6.28, the value of the
\* Tau key
PhiKeyLoadsTau ==
    /\ F = 2 /\ keys = <<Key("Phi", 0)>>
    /\ calculator.a = ZInt(628)
    /\ calculator.a = key_const(new, "Tau", 2).calc.a
    /\ RoundedParts(ConstantParts[3][1], ConstantParts[3][2], 2) = ZInt(162)

\* C25: in every reachable state of the calculator frac_digits <= F, and
\* frac_digits > 0 implies frac (so the exponent F - frac_digits - 1 of a
\* fractional digit's place is never negative).
FracDigitsWithinScale ==
    /\ calculator.frac_digits <= F
    /\ calculator.frac_digits > 0 => calculator.frac
    /\ (calculator.frac /\ calculator.frac_digits < F) => F - calculator.frac_digits - 1 >= 0

\* both fractional places of Calculator<2> are filled and a third digit has
\* been typed
FractionFull ==
    /\ F = 2 /\ Len(keys) = 4 /\ keys[1].k = "Dot"
    /\ \A i \in 2..4 : keys[i].k = "Num"
    /\ calculator.frac /\ calculator.frac_digits = 2

\* C26: in every reachable state of the calculator, unary-operator keys
\* pressed while a binary operation is pending included, op = None implies
\* b = ZERO: with no operator pending the second operand is zero.
NoPendingMeansZeroB ==
    calculator.op = "None" => calculator.b = ZERO

\* Add, 9, Neg: the unary key consumes the pending operator and leaves the 9
\* in b
UnaryKeyLeavesB ==
    /\ Len(keys) = 3 /\ keys[1].k = "Add" /\ keys[2] = Key("Num", 9) /\ keys[3].k = "Neg"
    /\ ~IsPanic(out)
    /\ calculator.op = "None"
    /\ calculator.b = num_from_int(ZInt(9), F)

\* the calculator after the first n keys of ks
RECURSIVE After(_, _)
After(ks, n) ==
    IF n = 0 THEN new ELSE handle_input(After(ks, n - 1), ks[n], F).calc

\* C27: Delete undoes the most recent digit: in any reachable state where a
\* digit key is accepted (integer entry, or fractional entry with
\* frac_digits < F), Num(d) and then Delete restore the current operand's raw
\* value, frac and frac_digits.
DeleteUndoesDigit ==
    (/\ Len(keys) >= 2
     /\ keys[Len(keys)].k = "Delete"
     /\ keys[Len(keys) - 1].k = "Num")
        => \A before \in {After(keys, Len(keys) - 2)} :
               (~before.frac \/ before.frac_digits < F)
                   => /\ ~IsPanic(out)
                      /\ operand(calculator) = operand(before)
                      /\ calculator.frac = before.frac
                      /\ calculator.frac_digits = before.frac_digits

\* 1, 9, Delete on the firmware's Calculator<2>: 19.00 becomes 1.90, not 1.00
DeleteDividesByTen ==
    /\ F = 2 /\ keys = <<Key("Num", 1), Key("Num", 9), Key("Delete", 0)>>
    /\ After(keys, 1).a = ZInt(100)
    /\ After(keys, 2).a = ZInt(1900)
    /\ calculator.a = ZInt(190)

\* C28: division and remainder fail only for a zero divisor: for every a and
\* every b with b.raw # 0 (a.raw * 10^F overflowing, a.raw = i64::MIN and
\* b.raw = -1 included), a / b and a % b return a value, in the engine and in
\* the calculator's Num<F>.
DivRemAbortOnlyAtZero ==
    /\ (op = "div" /\ b # Zero) => ~IsPanic(out) /\ ~IsPanic(num_div(a, b, F))
    /\ (op = "rem" /\ b # Zero) => ~IsPanic(out) /\ ~IsPanic(num_rem(a, b))

\* i64::MIN % -1 in a release build: the remainder overflows and aborts
RemOfMinByMinusOne ==
    /\ op = "rem" /\ ~checks /\ a = I64Min /\ b = ZInt(-1)
    /\ out = Panic("attempt to calculate the remainder with overflow")
    /\ num_rem(a, b) = out

\* C24: the cursor's default position selects the digit 5: right after
\* InputState::new() and after every reset_position(), key() is Key::Num(5).
DefaultPositionIsFive ==
    input.pos = DEFAULT_POS => key(input) = Key("Num", 5)

\* the button pressed with the cursor where reset_position left it: the key
\* handed to the calculator is the digit 3
DefaultPositionGivesThree ==
    /\ Len(keys) = 2 /\ keys[1] = Key("Num", 3) /\ keys[2] = Key("Num", 3)
    /\ input = reset_position(input)
    /\ key(input) = Key("Num", 3)
    /\ calculator.a = ZInt(3300)

\* C29: each physical press hands at most one key to the calculator: between
\* any two calls of handle_input in main's loop the button has been sampled
\* released at least once, whatever the joystick does in between.
OneKeyPerPress ==
    deliveries <= 1

\* the button held and the joystick moved: a second key is handed over with
\* no release sampled since the first
HeldButtonRepeats ==
    /\ deliveries = 2 /\ Len(keys) = 2
    /\ input.already_pressed
    /\ input.old_dir # "Center"

====
